---- MODULE Spec2Model ----
(***************************************************************************)
(* State-synchronisation and command-dispatch engine of vibe-cast:         *)
(* the canonical store (AppStateSync), the remote command handler          *)
(* (handle_command), the window entry point (emit_state_change), the       *)
(* configuration loader and the folder playback queue.                     *)
(***************************************************************************)
EXTENDS Integers, Sequences, FiniteSets, TLC

(***************************************************************************)
(* Option<T>: None is the empty tuple, Some(x) the one-element tuple.      *)
(***************************************************************************)
None == <<>>
Some(x) == <<x>>
IsSome(o) == Len(o) > 0
IsNone(o) == Len(o) = 0

(***************************************************************************)
(* serde_json::Value.  Every value carries its kind in field k.            *)
(***************************************************************************)
JNull == [k |-> "null"]
JBool(b) == [k |-> "bool", b |-> b]
JNum(n) == [k |-> "number", num |-> n]
JStr(s) == [k |-> "string", str |-> s]
JArr(a) == [k |-> "array", items |-> a]
JObj(f) == [k |-> "object", fields |-> f]
EmptyMap == [key \in {} |-> JNull]

\* Value::get(key): None unless the value is an object holding the key
get(v, key) ==
    IF v.k = "object" /\ key \in DOMAIN v.fields THEN Some(v.fields[key]) ELSE None

\* Value::as_str
as_str(v) == IF v.k = "string" THEN Some(v.str) ELSE None

\* Value::as_u64: None for a number with a fractional part
as_u64(v) ==
    IF v.k = "number" /\ "num" \in DOMAIN v /\ v.num >= 0 THEN Some(v.num) ELSE None

\* Value::as_array
as_array(v) == IF v.k = "array" THEN Some(v.items) ELSE None

\* v.get(key).and_then(|x| x.as_str())
get_str(v, key) ==
    IF IsSome(get(v, key)) THEN as_str(get(v, key)[1]) ELSE None

RECURSIVE Concat(_)
Concat(ss) == IF Len(ss) = 0 THEN <<>> ELSE Head(ss) \o Concat(Tail(ss))

RECURSIVE FirstSome(_)
FirstSome(os) ==
    IF Len(os) = 0 THEN None
    ELSE IF IsSome(Head(os)) THEN Head(os) ELSE FirstSome(Tail(os))

\* iter().find(|m| m.id == id).cloned()
RECURSIVE find_by_id(_, _)
find_by_id(ms, id) ==
    IF Len(ms) = 0 THEN None
    ELSE IF Head(ms).id = id THEN Some(Head(ms)) ELSE find_by_id(Tail(ms), id)

(***************************************************************************)
(* MessageConfig and its serde (camelCase) encoding.                       *)
(***************************************************************************)
MessageConfig(id, text, text_style) ==
    [id |-> id, text |-> text, text_file |-> None, text_style |-> text_style,
     text_style_preset |-> None, style_overrides |-> None,
     repeat_count |-> None, speed |-> None, split_enabled |-> None,
     split_separator |-> None]

\* one Option<..> field of a struct: absent or null is None, a value of the
\* wrong kind is a decode error (a u32 rejects a negative number; the numbers
\* of the model stay far below 2^32)
opt_field(v, key, kind) ==
    IF key \notin DOMAIN v.fields THEN [ok |-> TRUE, val |-> None]
    ELSE LET j == v.fields[key] IN
         IF j.k = "null" THEN [ok |-> TRUE, val |-> None]
         ELSE IF kind = "any" THEN [ok |-> TRUE, val |-> Some(j)]
         ELSE IF j.k # (IF kind = "u32" THEN "number" ELSE kind)
              THEN [ok |-> FALSE, val |-> None]
         ELSE IF kind = "string" THEN [ok |-> TRUE, val |-> Some(j.str)]
         ELSE IF kind = "bool" THEN [ok |-> TRUE, val |-> Some(j.b)]
         ELSE IF kind = "u32"
              THEN (IF j.num >= 0
                    THEN [ok |-> TRUE, val |-> Some(j.num)]
                    ELSE [ok |-> FALSE, val |-> None])
         ELSE [ok |-> TRUE, val |-> Some(j.num)]

\* serde_json::from_value::<MessageConfig>(v).ok()
from_value_MessageConfig(v) ==
    IF v.k # "object" THEN None
    ELSE IF \E key \in {"id", "text", "textStyle"} :
               key \notin DOMAIN v.fields \/ v.fields[key].k # "string"
    THEN None
    ELSE LET tf == opt_field(v, "textFile", "string")
             tp == opt_field(v, "textStylePreset", "string")
             so == opt_field(v, "styleOverrides", "any")
             rc == opt_field(v, "repeatCount", "u32")
             sp == opt_field(v, "speed", "number")
             se == opt_field(v, "splitEnabled", "bool")
             ss == opt_field(v, "splitSeparator", "string")
         IN IF tf.ok /\ tp.ok /\ so.ok /\ rc.ok /\ sp.ok /\ se.ok /\ ss.ok
            THEN Some([id |-> v.fields["id"].str,
                       text |-> v.fields["text"].str,
                       text_file |-> tf.val,
                       text_style |-> v.fields["textStyle"].str,
                       text_style_preset |-> tp.val,
                       style_overrides |-> so.val,
                       repeat_count |-> rc.val,
                       speed |-> sp.val,
                       split_enabled |-> se.val,
                       split_separator |-> ss.val])
            ELSE None

\* serde_json::to_value(&MessageConfig): None fields are skipped
to_value_MessageConfig(m) ==
    LET keys == {"id", "text", "textStyle"}
                \cup (IF IsSome(m.text_file) THEN {"textFile"} ELSE {})
                \cup (IF IsSome(m.text_style_preset) THEN {"textStylePreset"} ELSE {})
                \cup (IF IsSome(m.style_overrides) THEN {"styleOverrides"} ELSE {})
                \cup (IF IsSome(m.repeat_count) THEN {"repeatCount"} ELSE {})
                \cup (IF IsSome(m.speed) THEN {"speed"} ELSE {})
                \cup (IF IsSome(m.split_enabled) THEN {"splitEnabled"} ELSE {})
                \cup (IF IsSome(m.split_separator) THEN {"splitSeparator"} ELSE {})
    IN JObj([key \in keys |->
              CASE key = "id" -> JStr(m.id)
                [] key = "text" -> JStr(m.text)
                [] key = "textStyle" -> JStr(m.text_style)
                [] key = "textFile" -> JStr(m.text_file[1])
                [] key = "textStylePreset" -> JStr(m.text_style_preset[1])
                [] key = "styleOverrides" -> m.style_overrides[1]
                [] key = "repeatCount" -> JNum(m.repeat_count[1])
                [] key = "speed" -> JNum(m.speed[1])
                [] key = "splitEnabled" -> JBool(m.split_enabled[1])
                [] OTHER -> JStr(m.split_separator[1])])

\* serde_json::from_value::<Vec<MessageConfig>>(v).ok()
from_value_Vec_MessageConfig(v) ==
    IF v.k # "array" THEN None
    ELSE IF \E i \in 1..Len(v.items) : IsNone(from_value_MessageConfig(v.items[i]))
    THEN None
    ELSE Some([i \in 1..Len(v.items) |-> from_value_MessageConfig(v.items[i])[1]])

(***************************************************************************)
(* VisualizationPreset and its serde (camelCase) encoding.                 *)
(***************************************************************************)
\* a JSON number with a fractional part, kept as its decimal text (no
\* arithmetic is done on it)
JDec(text) == [k |-> "number", dec |-> text]

VisualizationPreset(id, name, visualization_id, settings) ==
    [id |-> id, name |-> name, visualization_id |-> visualization_id,
     settings |-> settings, enabled |-> Some(TRUE), order |-> None, icon |-> None]

\* serde_json::from_value::<VisualizationPreset>(v).ok(): id, name,
\* visualizationId and settings are required
from_value_VisualizationPreset(v) ==
    IF v.k # "object" THEN None
    ELSE IF \E key \in {"id", "name", "visualizationId"} :
               key \notin DOMAIN v.fields \/ v.fields[key].k # "string"
    THEN None
    ELSE IF "settings" \notin DOMAIN v.fields THEN None
    ELSE IF ~opt_field(v, "enabled", "bool").ok
            \/ ~opt_field(v, "order", "u32").ok
            \/ ~opt_field(v, "icon", "string").ok
    THEN None
    ELSE Some([id |-> v.fields["id"].str,
               name |-> v.fields["name"].str,
               visualization_id |-> v.fields["visualizationId"].str,
               settings |-> v.fields["settings"],
               enabled |-> opt_field(v, "enabled", "bool").val,
               order |-> opt_field(v, "order", "u32").val,
               icon |-> opt_field(v, "icon", "string").val])

\* serde_json::from_value::<Vec<VisualizationPreset>>(v).ok()
from_value_Vec_VisualizationPreset(v) ==
    IF v.k # "array" THEN None
    ELSE IF \E i \in 1..Len(v.items) : IsNone(from_value_VisualizationPreset(v.items[i]))
    THEN None
    ELSE Some([i \in 1..Len(v.items) |-> from_value_VisualizationPreset(v.items[i])[1]])

(***************************************************************************)
(* Message tree codec.                                                     *)
(***************************************************************************)
RECURSIVE walk(_)
walk(node) ==
    IF node.k = "array"
    THEN Concat([i \in 1..Len(node.items) |-> walk(node.items[i])])
    ELSE IF node.k = "object"
    THEN LET t == get_str(node, "type") IN
         IF t = Some("message")
         THEN (IF IsSome(get(node, "message"))
                  /\ IsSome(from_value_MessageConfig(get(node, "message")[1]))
               THEN <<from_value_MessageConfig(get(node, "message")[1])[1]>>
               ELSE <<>>)
         ELSE IF t = Some("folder")
         THEN (IF IsSome(get(node, "children"))
               THEN walk(get(node, "children")[1]) ELSE <<>>)
         ELSE <<>>
    ELSE <<>>

flatten_message_tree(tree) == walk(tree)

flatten_message_tree_value(tree) == walk(tree)

\* faulty variant of build_flat_message_tree: the message is written with its
\* required fields only
build_flat_message_tree_plain(messages) ==
    JArr([i \in 1..Len(messages) |->
            JObj([type |-> JStr("message"),
                  id |-> JStr(messages[i].id),
                  message |-> to_value_MessageConfig(
                      MessageConfig(messages[i].id, messages[i].text,
                                    messages[i].text_style))])])

build_flat_message_tree(messages) ==
    JArr([i \in 1..Len(messages) |->
            JObj([type |-> JStr("message"),
                  id |-> JStr(messages[i].id),
                  message |-> to_value_MessageConfig(messages[i])])])

RECURSIVE find_folder(_, _)
find_folder(folder_id, node) ==
    IF node.k = "array"
    THEN FirstSome([i \in 1..Len(node.items) |-> find_folder(folder_id, node.items[i])])
    ELSE IF node.k = "object" /\ get_str(node, "type") = Some("folder")
    THEN (IF get_str(node, "id") = Some(folder_id)
          THEN Some(node)
          ELSE IF IsSome(get(node, "children"))
          THEN find_folder(folder_id, get(node, "children")[1])
          ELSE None)
    ELSE None

RECURSIVE collect_ids(_)
collect_ids(node) ==
    IF node.k = "array"
    THEN Concat([i \in 1..Len(node.items) |-> collect_ids(node.items[i])])
    ELSE IF node.k = "object"
    THEN LET t == get_str(node, "type") IN
         IF t = Some("message")
         THEN (IF IsSome(get(node, "message"))
                  /\ IsSome(get_str(get(node, "message")[1], "id"))
               THEN <<get_str(get(node, "message")[1], "id")[1]>> ELSE <<>>)
         ELSE IF t = Some("folder")
         THEN (IF IsSome(get(node, "children"))
               THEN collect_ids(get(node, "children")[1]) ELSE <<>>)
         ELSE <<>>
    ELSE <<>>

\* faulty variant of collect_messages_from_folder: only the messages directly
\* in the folder, not those of its sub-folders
collect_messages_from_folder_direct(folder_id, tree) ==
    LET folder == find_folder(folder_id, tree) IN
    IF IsSome(folder) /\ IsSome(get(folder[1], "children"))
    THEN LET children == get(folder[1], "children")[1] IN
         IF children.k = "array"
         THEN Concat([i \in 1..Len(children.items) |->
                        IF get_str(children.items[i], "type") = Some("message")
                        THEN collect_ids(children.items[i]) ELSE <<>>])
         ELSE collect_ids(children)
    ELSE <<>>

collect_messages_from_folder(folder_id, tree) ==
    LET folder == find_folder(folder_id, tree) IN
    IF IsSome(folder) /\ IsSome(get(folder[1], "children"))
    THEN collect_ids(get(folder[1], "children")[1])
    ELSE <<>>

(***************************************************************************)
(* CommonSettings and the statistics document.                             *)
(***************************************************************************)
\* CommonSettings::default()
CommonSettings_default == [intensity |-> 1, dim |-> 1]

\* serde_json::from_value::<CommonSettings>(v).ok(): both fields are required
from_value_CommonSettings(v) ==
    IF v.k = "object"
       /\ \A key \in {"intensity", "dim"} :
             key \in DOMAIN v.fields /\ v.fields[key].k = "number"
    THEN Some([intensity |-> v.fields["intensity"].num, dim |-> v.fields["dim"].num])
    ELSE None

HistoryCap == 50

RECURSIVE rev(_)
rev(s) == IF Len(s) = 0 THEN <<>> ELSE rev(Tail(s)) \o <<Head(s)>>

take(s, n) == SubSeq(s, 1, IF Len(s) < n THEN Len(s) ELSE n)

\* faulty variant of keep_last: the oldest records are the ones kept
keep_first(history) == take(history, HistoryCap)

\* history.into_iter().rev().take(50).rev().collect()
keep_last(history) ==
    IF Len(history) > HistoryCap THEN rev(take(rev(history), HistoryCap)) ELSE history

\* faulty variant of update_message_stats: the entry is written as if the id
\* had no entry yet
update_message_stats_lost(stats, msg_id, timestamp) ==
    LET new_stats ==
            JObj([messageId |-> JStr(msg_id), triggerCount |-> JNum(1),
                  lastTriggered |-> JNum(timestamp),
                  history |-> JArr(<<JObj([timestamp |-> JNum(timestamp)])>>)])
    IN IF stats.k = "object"
       THEN JObj([key \in DOMAIN stats.fields \cup {msg_id} |->
                    IF key = msg_id THEN new_stats ELSE stats.fields[key]])
       ELSE JObj([key \in {msg_id} |-> new_stats])

\* the critical section of trigger-message under the message_stats lock
update_message_stats(stats, msg_id, timestamp) ==
    LET current_stats ==
            IF IsSome(get(stats, msg_id)) THEN get(stats, msg_id)[1]
            ELSE JObj([messageId |-> JStr(msg_id), triggerCount |-> JNum(0),
                       lastTriggered |-> JNum(0), history |-> JArr(<<>>)])
        old_count ==
            IF IsSome(get(current_stats, "triggerCount"))
               /\ IsSome(as_u64(get(current_stats, "triggerCount")[1]))
            THEN as_u64(get(current_stats, "triggerCount")[1])[1] ELSE 0
        trigger_count == old_count + 1
        old_history ==
            IF IsSome(get(current_stats, "history"))
               /\ IsSome(as_array(get(current_stats, "history")[1]))
            THEN as_array(get(current_stats, "history")[1])[1] ELSE <<>>
        history ==
            keep_last(Append(old_history, JObj([timestamp |-> JNum(timestamp)])))
        new_stats ==
            JObj([messageId |-> JStr(msg_id), triggerCount |-> JNum(trigger_count),
                  lastTriggered |-> JNum(timestamp), history |-> JArr(history)])
    IN IF stats.k = "object"
       THEN JObj([key \in DOMAIN stats.fields \cup {msg_id} |->
                    IF key = msg_id THEN new_stats ELSE stats.fields[key]])
       ELSE JObj([key \in {msg_id} |-> new_stats])

\* trigger-message: a bare string is the legacy format
decode_trigger_payload(p) ==
    IF p.k = "string"
    THEN Some(MessageConfig("triggered", p.str, "scrolling-capitals"))
    ELSE from_value_MessageConfig(p)

\* set-messages: an array of MessageConfig, else (legacy) an array of strings
decode_set_messages(p) ==
    IF IsSome(from_value_Vec_MessageConfig(p)) THEN from_value_Vec_MessageConfig(p)
    ELSE IF p.k = "array"
    THEN Some(Concat([i \in 1..Len(p.items) |->
                 IF p.items[i].k = "string"
                 THEN <<MessageConfig(ToString(i - 1), p.items[i].str, "scrolling-capitals")>>
                 ELSE <<>>]))
    ELSE None

(***************************************************************************)
(* Folder playback queue.                                                  *)
(***************************************************************************)
FolderPlaybackQueue(folder_id, message_ids, current_index) ==
    [folder_id |-> folder_id, message_ids |-> message_ids,
     current_index |-> current_index]

\* faulty variant of ids_get: the index is ignored
ids_get_first(message_ids, i) ==
    IF 0 < Len(message_ids) THEN Some(message_ids[1]) ELSE None

\* q.message_ids.get(i) with a 0-based index
ids_get(message_ids, i) ==
    IF i < Len(message_ids) THEN Some(message_ids[i + 1]) ELSE None

\* faulty variant of is_current_message: any queued id passes
is_queued_message(q, message_id) ==
    \E i \in 1..Len(q.message_ids) : q.message_ids[i] = message_id

\* if let Some(current_id) = q.message_ids.get(q.current_index) { if current_id == message_id
is_current_message(q, message_id) ==
    ids_get(q.message_ids, q.current_index) = Some(message_id)

\* faulty variant of advance_queue: the index moves two positions
advance_queue_skip(queue, msgs, message_id) ==
    IF IsSome(queue) /\ is_current_message(queue[1], message_id)
    THEN LET q == [queue[1] EXCEPT !.current_index = @ + 2] IN
         IF q.current_index < Len(q.message_ids)
         THEN [queue |-> Some(q),
               next_message |-> find_by_id(msgs, q.message_ids[q.current_index + 1]),
               should_clear_queue |-> FALSE]
         ELSE [queue |-> Some(q), next_message |-> None, should_clear_queue |-> TRUE]
    ELSE [queue |-> queue, next_message |-> None, should_clear_queue |-> FALSE]

\* the critical section of message-complete / clear-active-message under the
\* folder_playback_queue lock (the messages lock is taken inside it)
advance_queue(queue, msgs, message_id) ==
    IF IsSome(queue) /\ is_current_message(queue[1], message_id)
    THEN LET q == [queue[1] EXCEPT !.current_index = @ + 1] IN
         IF q.current_index < Len(q.message_ids)
         THEN [queue |-> Some(q),
               next_message |-> find_by_id(msgs, q.message_ids[q.current_index + 1]),
               should_clear_queue |-> FALSE]
         ELSE [queue |-> Some(q), next_message |-> None, should_clear_queue |-> TRUE]
    ELSE [queue |-> queue, next_message |-> None, should_clear_queue |-> FALSE]

\* json!({"command": "trigger-message", "payload": msg}) emitted to the windows
trigger_cmd(msg) ==
    [event |-> "remote-command",
     payload |-> JObj([command |-> JStr("trigger-message"),
                       payload |-> to_value_MessageConfig(msg)])]

\* json!({"command": "clear-message", "payload": null}) emitted to the windows
clear_cmd ==
    [event |-> "remote-command",
     payload |-> JObj([command |-> JStr("clear-message"), payload |-> JNull])]

\* RemoteCommand {command, payload: Option<Value>} and its serialisation
RemoteCommand(command, payload) == [command |-> command, payload |-> payload]

to_value_RemoteCommand(c) ==
    JObj([command |-> JStr(c.command),
          payload |-> IF IsSome(c.payload) THEN c.payload[1] ELSE JNull])

(***************************************************************************)
(* The canonical store (AppStateSync), the two broadcast feeds and the     *)
(* events emitted to the windows.                                          *)
(***************************************************************************)
VARIABLES
    active_visualization,   \* Mutex<String>
    visualization_presets,  \* Mutex<Vec<VisualizationPreset>>
    active_visualization_preset, \* Mutex<Option<String>>
    poisoned,               \* the fields whose Mutex is poisoned
    config_base_path,       \* Mutex<Option<String>>, not part of BroadcastState
    common_settings,        \* Mutex<CommonSettings>
    messages,               \* Mutex<Vec<MessageConfig>>
    message_tree,           \* Mutex<serde_json::Value>
    default_text_style,     \* Mutex<String>
    message_stats,          \* Mutex<serde_json::Value>
    folder_playback_queue,  \* Mutex<Option<FolderPlaybackQueue>>
    triggered_message,      \* Mutex<Option<MessageConfig>>
    state_tx,               \* the snapshot most recently sent on the state feed
    command_tx,             \* the command most recently sent on the command feed
    emitted,                \* events emitted to the windows by the request that completed last
    lastCmd,                \* the request a handler completed last, and the queue it found
    clock,                  \* SystemTime::now() in milliseconds; it advances with every
                            \* trigger and with every request a worker accepts
    workers,                \* the requests in progress on the runtime's worker threads
    sse,                    \* the client of GET /api/events: its position, its two
                            \* receivers and what it was delivered
    display                 \* the display surface (the visualizer window): the
                            \* triggers of the playback engine it has not answered

\* the fields of the visualization selection
visualization == <<active_visualization, visualization_presets,
                   active_visualization_preset>>

store == <<visualization, poisoned, config_base_path, common_settings, messages, message_tree,
           default_text_style, message_stats, folder_playback_queue,
           triggered_message>>

vars == <<visualization, poisoned, config_base_path, common_settings, messages, message_tree, default_text_style,
          message_stats, folder_playback_queue, triggered_message,
          state_tx, command_tx, emitted, display, lastCmd, clock, workers, sse>>

\* two requests can be in progress at the same time
Workers == {1, 2}

\* a worker's position (pc) and the locals of the request it handles;
\* `advanced` records the queue the request found when it advanced it and
\* `superseded` that play-folder has installed another queue since;
\* `locks` is the sequence of lock operations the request performs and `at`
\* the number of them it has completed
idle_worker ==
    [pc |-> "idle", command |-> "", payload |-> None, triggered |-> None,
     message_ids |-> <<>>, emits |-> <<>>, snap |-> <<>>,
     advanced |-> None, superseded |-> FALSE, at |-> 0, locks |-> <<>>]

\* AppStateSync::new: default messages
default_messages ==
    << MessageConfig("msg-1", "Countdown initiated...", "typewriter"),
       [MessageConfig("msg-2", "3, 2, 1", "bounce") EXCEPT
            !.speed = Some(1), !.split_enabled = Some(TRUE),
            !.split_separator = Some(",")],
       [MessageConfig("msg-3", "It's time to party", "scrolling-capitals") EXCEPT
            !.text_style_preset = Some("scrolling-capitals-centered")] >>

\* AppStateSync::new: default message tree
default_message_tree ==
    JArr(<< JObj([type |-> JStr("folder"), id |-> JStr("party-countdown"),
                  name |-> JStr("Party Countdown"),
                  children |-> JArr(<<
        JObj([type |-> JStr("message"), id |-> JStr("msg-1"),
              message |-> JObj([id |-> JStr("msg-1"),
                                text |-> JStr("Countdown initiated..."),
                                textStyle |-> JStr("typewriter")])]),
        JObj([type |-> JStr("message"), id |-> JStr("msg-2"),
              message |-> JObj([id |-> JStr("msg-2"),
                                text |-> JStr("3, 2, 1"),
                                textStyle |-> JStr("bounce"),
                                splitEnabled |-> JBool(TRUE),
                                splitSeparator |-> JStr(","),
                                speed |-> JNum(1)])]),
        JObj([type |-> JStr("message"), id |-> JStr("msg-3"),
              message |-> JObj([id |-> JStr("msg-3"),
                                text |-> JStr("It's time to party"),
                                textStyle |-> JStr("scrolling-capitals"),
                                textStylePreset |-> JStr("scrolling-capitals-centered")])])
                  >>)]) >>)

\* AppStateSync::new: default visualization presets
default_viz_presets ==
    << VisualizationPreset("fireplace-default", "Fireplace", "fireplace",
          JObj([emberCount |-> JNum(15), flameCount |-> JNum(12),
                flameHeight |-> JDec("1.0"), glowColor |-> JStr("#ea580c"),
                showLogs |-> JBool(TRUE)])),
       VisualizationPreset("fireplace-blue-glow", "Blue Glow", "fireplace",
          JObj([emberCount |-> JNum(0), flameCount |-> JNum(0),
                flameHeight |-> JNum(0), glowColor |-> JStr("#1e3a8a"),
                showLogs |-> JBool(FALSE)])),
       VisualizationPreset("photo-slideshow-default", "Photo Slideshow", "photo-slideshow",
          JObj([sourceType |-> JStr("local"), folderPath |-> JStr(""),
                photosAlbumName |-> JStr(""), displayDuration |-> JNum(5),
                transitionDuration |-> JDec("0.8"), randomOrder |-> JBool(FALSE),
                enableFade |-> JBool(TRUE), enableSlide |-> JBool(TRUE),
                enableZoom |-> JBool(TRUE), enable3DRotate |-> JBool(TRUE),
                enableCube |-> JBool(FALSE), enableFlip |-> JBool(TRUE),
                fitMode |-> JStr("cover"), smartCrop |-> JBool(TRUE),
                videoSound |-> JBool(TRUE), videoVolume |-> JNum(50)])),
       VisualizationPreset("particles-default", "Particles", "particles",
          JObj([particleCount |-> JNum(80), particleSize |-> JNum(5),
                speed |-> JDec("0.5"), particleColor |-> JStr("#f59e0b"),
                colorful |-> JBool(TRUE), spread |-> JDec("1.5")])),
       VisualizationPreset("youtube-default", "YouTube", "youtube",
          JObj([videoUrl |-> JStr("https://youtu.be/uNNk-V08J7k?si=0chlR1UB6XYRxPc3"),
                showControls |-> JBool(FALSE), muted |-> JBool(TRUE),
                volume |-> JNum(50)])),
       VisualizationPreset("techno-default", "Techno", "techno",
          JObj([barCount |-> JNum(48), sphereScale |-> JDec("1.0"),
                sphereDistort |-> JDec("0.5"), colorScheme |-> JStr("rainbow"),
                showSphere |-> JBool(FALSE), showBars |-> JBool(TRUE)])) >>

\* Mutex::lock() is Ok unless a thread panicked while holding the lock
lock_ok(P, field) == field \notin P

\* faulty variant of clone_message_stats: the poisoned value is read anyway
clone_message_stats_into_inner == message_stats

\* get_state: message_stats.lock().map(|m| m.clone()).unwrap_or_else(|_| json!({}))
clone_message_stats ==
    IF lock_ok(poisoned, "message_stats") THEN message_stats ELSE JObj(EmptyMap)

\* faulty variant of clone_folder_playback_queue: the poisoned value is read
clone_folder_playback_queue_into_inner == folder_playback_queue

\* get_state: folder_playback_queue.lock().map(|m| m.clone()).unwrap_or(None)
clone_folder_playback_queue ==
    IF lock_ok(poisoned, "folder_playback_queue") THEN folder_playback_queue ELSE None

\* AppStateSync::get_state; mode is a clone of the active visualization
\* that was cloned first
get_state ==
    [active_visualization |-> active_visualization,
     visualization_presets |-> visualization_presets,
     active_visualization_preset |-> active_visualization_preset,
     mode |-> active_visualization,
     common_settings |-> common_settings,
     messages |-> messages,
     message_tree |-> message_tree,
     default_text_style |-> default_text_style,
     message_stats |-> clone_message_stats,
     triggered_message |-> triggered_message,
     folder_playback_queue |-> clone_folder_playback_queue]

\* no display surface is open
no_display == [on |-> FALSE, pending |-> <<>>, seen |-> 0]

(***************************************************************************)
(* The two feeds, as seen by one client of GET /api/events.                *)
(***************************************************************************)
\* broadcast::channel(64): the number of values a feed retains
ChannelCapacity == 64

\* no client is connected.  rx_state and rx_command hold the values sent on
\* a feed that the client's receiver has not read yet, each with its number
\* in the order of sending; sent_*, dropped_* and recv_* count the values
\* sent to, dropped from and read from a receiver; got_* is the number of
\* the value read last from a receiver; last and first are the
\* events delivered last and first, last_state the state event delivered
\* last; at_subscribe is the store when both
\* receivers were registered and quiet tells that get_state found the store
\* as it was then.
no_subscriber ==
    [pc |-> "none", snap |-> <<>>, turn |-> "state",
     rx_state |-> <<>>, rx_command |-> <<>>,
     sent_state |-> 0, sent_command |-> 0,
     dropped_state |-> 0, dropped_command |-> 0,
     recv_state |-> 0, recv_command |-> 0,
     got_state |-> 0, got_command |-> 0,
     delivered |-> 0, first |-> None, last |-> None, last_state |-> None,
     at_subscribe |-> None, quiet |-> TRUE]

\* faulty variant of has_rx_state: the receiver is created after get_state
has_rx_state_late(s) == s.pc \in {"initial", "live"}

\* state_tx.subscribe() is the first statement of state_events
has_rx_state(s) == s.pc # "none"

\* command_tx.subscribe() is the second
has_rx_command(s) == s.pc \notin {"none", "subscribing"}

\* faulty variant of push: no unread value is ever dropped
push_unbounded(buf, item) == Append(buf, item)

\* Sender::send: the value is appended; a receiver that has ChannelCapacity
\* unread values loses the oldest of them
push(buf, item) ==
    IF Len(buf) < ChannelCapacity THEN Append(buf, item)
    ELSE Append(Tail(buf), item)

\* state_tx.send(state)
publish_state(s, data) ==
    IF ~has_rx_state(s) THEN s
    ELSE [s EXCEPT !.sent_state = @ + 1,
                   !.rx_state = push(@, [seq |-> s.sent_state + 1, data |-> data]),
                   !.dropped_state = IF Len(s.rx_state) < ChannelCapacity THEN @ ELSE @ + 1]

\* faulty variant of publish_command: the command is not sent
publish_command_lost(s, data) == s

\* command_tx.send(command)
publish_command(s, data) ==
    IF ~has_rx_command(s) THEN s
    ELSE [s EXCEPT !.sent_command = @ + 1,
                   !.rx_command = push(@, [seq |-> s.sent_command + 1, data |-> data]),
                   !.dropped_command = IF Len(s.rx_command) < ChannelCapacity THEN @ ELSE @ + 1]

Init ==
    /\ active_visualization = "fireplace"
    /\ visualization_presets = default_viz_presets
    /\ active_visualization_preset = Some("fireplace-blue-glow")
    /\ poisoned = {}
    /\ config_base_path = None
    /\ common_settings = CommonSettings_default
    /\ messages = default_messages
    /\ message_tree = default_message_tree
    /\ default_text_style = "scrolling-capitals"
    /\ message_stats = JObj(EmptyMap)
    /\ folder_playback_queue = None
    /\ triggered_message = None
    /\ state_tx = None
    /\ command_tx = None
    /\ emitted = <<>>
    /\ lastCmd = [entry |-> "new", command |-> "", payload |-> None,
                  queue_before |-> None, result |-> ""]
    /\ clock = 1
    /\ workers = [w \in Workers |-> idle_worker]
    /\ sse = no_subscriber
    /\ display = no_display

(***************************************************************************)
(* Configuration documents.  S is the record of the store fields a         *)
(* configuration document can replace.                                     *)
(***************************************************************************)
config_fields ==
    [active_visualization |-> active_visualization,
     visualization_presets |-> visualization_presets,
     active_visualization_preset |-> active_visualization_preset,
     common_settings |-> common_settings, messages |-> messages,
     message_tree |-> message_tree, default_text_style |-> default_text_style,
     message_stats |-> message_stats, poisoned |-> poisoned]

config_active_visualization(S, obj) ==
    IF IsSome(get_str(obj, "activeVisualization"))
    THEN get_str(obj, "activeVisualization")[1]
    ELSE S.active_visualization

\* the visualizationPresets of a configuration document, when they decode
config_visualization_presets(S, obj) ==
    IF IsSome(get(obj, "visualizationPresets"))
       /\ IsSome(from_value_Vec_VisualizationPreset(get(obj, "visualizationPresets")[1]))
    THEN from_value_Vec_VisualizationPreset(get(obj, "visualizationPresets")[1])[1]
    ELSE S.visualization_presets

\* activeVisualizationPreset: only the preset id is stored
config_active_visualization_preset(S, obj) ==
    IF IsSome(get_str(obj, "activeVisualizationPreset"))
    THEN Some(get_str(obj, "activeVisualizationPreset")[1])
    ELSE S.active_visualization_preset

\* the commonSettings of a configuration document, when they decode
config_common_settings(S, obj) ==
    IF IsSome(get(obj, "commonSettings"))
       /\ IsSome(from_value_CommonSettings(get(obj, "commonSettings")[1]))
    THEN from_value_CommonSettings(get(obj, "commonSettings")[1])[1]
    ELSE S.common_settings

\* the messages of a configuration document, when they decode
config_messages(S, obj) ==
    IF IsSome(get(obj, "messages"))
       /\ IsSome(from_value_Vec_MessageConfig(get(obj, "messages")[1]))
    THEN from_value_Vec_MessageConfig(get(obj, "messages")[1])[1]
    ELSE S.messages

config_default_text_style(S, obj) ==
    IF IsSome(get_str(obj, "defaultTextStyle"))
    THEN get_str(obj, "defaultTextStyle")[1]
    ELSE S.default_text_style

\* messageStats: stored verbatim when the lock of the statistics can be taken
config_message_stats(S, obj) ==
    IF IsSome(get(obj, "messageStats")) /\ lock_ok(S.poisoned, "message_stats")
    THEN get(obj, "messageStats")[1]
    ELSE S.message_stats

\* the flat tree built inline by emit_state_change and load_config_from_file
inline_flat_tree(msgs) ==
    JArr([i \in 1..Len(msgs) |->
            JObj([type |-> JStr("message"),
                  id |-> JStr(msgs[i].id),
                  message |-> to_value_MessageConfig(msgs[i])])])

\* the keys of a document that are present and fail to decode
malformed_keys(obj) ==
    {key \in {"commonSettings"} :
        IsSome(get(obj, key)) /\ IsNone(from_value_CommonSettings(get(obj, key)[1]))}
    \cup {key \in {"messages"} :
        IsSome(get(obj, key)) /\ IsNone(from_value_Vec_MessageConfig(get(obj, key)[1]))}
    \cup {key \in {"visualizationPresets"} :
        IsSome(get(obj, key))
        /\ IsNone(from_value_Vec_VisualizationPreset(get(obj, key)[1]))}

\* faulty variant of server_load_configuration: a document with a key that
\* fails to decode is rejected as a whole
server_load_configuration_strict(S, obj) ==
    IF obj.k # "object" \/ malformed_keys(obj) # {} THEN S
    ELSE [active_visualization |-> config_active_visualization(S, obj),
          visualization_presets |-> config_visualization_presets(S, obj),
          active_visualization_preset |-> config_active_visualization_preset(S, obj),
          common_settings |-> config_common_settings(S, obj),
          messages |-> IF IsSome(get(obj, "messageTree"))
                       THEN flatten_message_tree(get(obj, "messageTree")[1])
                       ELSE config_messages(S, obj),
          message_tree |-> IF IsSome(get(obj, "messageTree"))
                           THEN get(obj, "messageTree")[1]
                           ELSE build_flat_message_tree(config_messages(S, obj)),
          default_text_style |-> config_default_text_style(S, obj),
          message_stats |-> config_message_stats(S, obj)]

\* handle_command, "load-configuration": commonSettings, messages, then
\* messageTree (which overrides messages) or else a flat tree of the
\* messages, defaultTextStyle, messageStats
server_load_configuration(S, obj) ==
    IF obj.k # "object" THEN S
    ELSE [active_visualization |-> config_active_visualization(S, obj),
          visualization_presets |-> config_visualization_presets(S, obj),
          active_visualization_preset |-> config_active_visualization_preset(S, obj),
          common_settings |-> config_common_settings(S, obj),
          messages |-> IF IsSome(get(obj, "messageTree"))
                       THEN flatten_message_tree(get(obj, "messageTree")[1])
                       ELSE config_messages(S, obj),
          message_tree |-> IF IsSome(get(obj, "messageTree"))
                           THEN get(obj, "messageTree")[1]
                           ELSE build_flat_message_tree(config_messages(S, obj)),
          default_text_style |-> config_default_text_style(S, obj),
          message_stats |-> config_message_stats(S, obj)]

\* faulty variant of app_load_configuration: the tree is stored but the
\* messages are not derived from it
app_load_configuration_tree_only(S, obj) ==
    IF obj.k # "object" THEN S
    ELSE [active_visualization |-> config_active_visualization(S, obj),
          visualization_presets |-> config_visualization_presets(S, obj),
          active_visualization_preset |-> config_active_visualization_preset(S, obj),
          common_settings |-> config_common_settings(S, obj),
          messages |-> config_messages(S, obj),
          message_tree |-> IF IsSome(get(obj, "messageTree"))
                           THEN get(obj, "messageTree")[1]
                           ELSE inline_flat_tree(config_messages(S, obj)),
          default_text_style |-> config_default_text_style(S, obj),
          message_stats |-> config_message_stats(S, obj)]

\* emit_state_change, "LOAD_CONFIGURATION"
app_load_configuration(S, obj) ==
    IF obj.k # "object" THEN S
    ELSE [active_visualization |-> config_active_visualization(S, obj),
          visualization_presets |-> config_visualization_presets(S, obj),
          active_visualization_preset |-> config_active_visualization_preset(S, obj),
          common_settings |-> config_common_settings(S, obj),
          messages |-> IF IsSome(get(obj, "messageTree"))
                       THEN flatten_message_tree_value(get(obj, "messageTree")[1])
                       ELSE config_messages(S, obj),
          message_tree |-> IF IsSome(get(obj, "messageTree"))
                           THEN get(obj, "messageTree")[1]
                           ELSE inline_flat_tree(config_messages(S, obj)),
          default_text_style |-> config_default_text_style(S, obj),
          message_stats |-> config_message_stats(S, obj)]

\* faulty variant of state_load_config: the messages key is applied after
\* the tree and wins over it
state_load_config_list_first(S, obj) ==
    IF obj.k # "object" THEN S
    ELSE [active_visualization |-> config_active_visualization(S, obj),
          visualization_presets |-> config_visualization_presets(S, obj),
          active_visualization_preset |-> config_active_visualization_preset(S, obj),
          common_settings |-> config_common_settings(S, obj),
          messages |-> config_messages(S, obj),
          message_tree |-> IF IsSome(get(obj, "messageTree"))
                           THEN get(obj, "messageTree")[1]
                           ELSE inline_flat_tree(config_messages(S, obj)),
          default_text_style |-> config_default_text_style(S, obj),
          message_stats |-> config_message_stats(S, obj)]

\* AppStateSync::load_config_from_file, after the document was parsed
state_load_config(S, obj) ==
    IF obj.k # "object" THEN S
    ELSE [active_visualization |-> config_active_visualization(S, obj),
          visualization_presets |-> config_visualization_presets(S, obj),
          active_visualization_preset |-> config_active_visualization_preset(S, obj),
          common_settings |-> config_common_settings(S, obj),
          messages |-> IF IsSome(get(obj, "messageTree"))
                       THEN flatten_message_tree_value(get(obj, "messageTree")[1])
                       ELSE config_messages(S, obj),
          message_tree |-> IF IsSome(get(obj, "messageTree"))
                           THEN get(obj, "messageTree")[1]
                           ELSE inline_flat_tree(config_messages(S, obj)),
          default_text_style |-> config_default_text_style(S, obj),
          message_stats |-> config_message_stats(S, obj)]

(***************************************************************************)
(* handle_command: one action per command, each the whole handler.         *)
(***************************************************************************)
\* the ids of the messages that the trigger-message events among these carry
trigger_ids(events) ==
    LET ts == SelectSeq(events, LAMBDA e :
                  get(e.payload, "command") = Some(JStr("trigger-message")))
    IN  [i \in 1..Len(ts) |-> ts[i].payload.fields["payload"].fields["id"].str]

\* app_handle.emit("remote-command", ..) as the display surface sees it: once
\* it is open it plays the messages the playback engine triggers, in their
\* order; a message-complete for the message it plays is its own answer
show(d, command, payload, emits) ==
    IF ~d.on THEN d
    ELSE LET answered ==
                 /\ command = "message-complete"
                 /\ Len(d.pending) > 0
                 /\ payload = Some(JObj([messageId |-> JStr(Head(d.pending))]))
         IN  [on |-> TRUE,
              pending |-> (IF answered THEN Tail(d.pending) ELSE d.pending)
                          \o trigger_ids(emits),
              seen |-> d.seen + 1]

\* the tail of handle_command: broadcast(triggered_message), broadcast_command,
\* emit of the command to the windows
respond(command, payload, triggered, emits) ==
    /\ triggered_message' = triggered
    /\ state_tx' = Some(get_state')
    /\ command_tx' = Some(RemoteCommand(command, payload))
    /\ emitted' = Append(emits, [event |-> "remote-command",
                                 payload |-> to_value_RemoteCommand(RemoteCommand(command, payload))])
    /\ lastCmd' = [entry |-> "remote", command |-> command, payload |-> payload,
                   result |-> "status ok",
                   queue_before |-> folder_playback_queue]
    /\ sse' = publish_command(publish_state(sse, get_state'),
                              RemoteCommand(command, payload))
    /\ display' = show(display, command, payload, emits)
    /\ UNCHANGED workers

\* the command names handle_command matches on
CommandTable ==
    {"set-mode", "set-active-visualization", "set-enabled-visualizations",
     "set-common-settings", "set-visualization-settings", "trigger-message",
     "set-messages", "set-message-tree", "set-default-text-style",
     "set-text-style-settings", "set-visualization-presets",
     "set-active-visualization-preset", "set-text-style-presets",
     "clear-active-message", "message-complete", "play-folder",
     "cancel-folder-playback", "reset-message-stats", "load-configuration"}

\* the `_ => {}` arm: no field is written before the tail of the handler
handle_command_unknown(command, payload) ==
    /\ command \notin CommandTable
    /\ UNCHANGED <<visualization, poisoned, config_base_path, common_settings, messages, message_tree, default_text_style,
                   message_stats, folder_playback_queue, clock>>
    /\ respond(command, payload, None, <<>>)

\* "set-mode" (legacy) and "set-active-visualization": the same arm twice
handle_command_set_active_visualization(command, payload) ==
    /\ active_visualization' =
          IF IsSome(payload) /\ IsSome(as_str(payload[1]))
          THEN as_str(payload[1])[1] ELSE active_visualization
    /\ UNCHANGED <<visualization_presets, active_visualization_preset, poisoned, config_base_path,
                   common_settings, messages, message_tree, default_text_style,
                   message_stats, folder_playback_queue, clock>>
    /\ respond(command, payload, None, <<>>)

handle_command_set_visualization_presets(payload) ==
    /\ visualization_presets' =
          IF IsSome(payload) /\ IsSome(from_value_Vec_VisualizationPreset(payload[1]))
          THEN from_value_Vec_VisualizationPreset(payload[1])[1]
          ELSE visualization_presets
    /\ UNCHANGED <<active_visualization, active_visualization_preset, poisoned, config_base_path,
                   common_settings, messages, message_tree, default_text_style,
                   message_stats, folder_playback_queue, clock>>
    /\ respond("set-visualization-presets", payload, None, <<>>)

\* Json<RemoteCommand>: payload is an Option<Value>, so a payload member
\* that is absent or null is decoded to None
decode_payload(member) ==
    IF IsNone(member) THEN None
    ELSE IF member[1].k = "null" THEN None
    ELSE member

\* presets.iter().find(|p| p.id == preset_id)
RECURSIVE find_preset(_, _)
find_preset(presets, preset_id) ==
    IF Len(presets) = 0 THEN None
    ELSE IF Head(presets).id = preset_id THEN Some(Head(presets))
    ELSE find_preset(Tail(presets), preset_id)

\* the arm "set-active-visualization-preset" on the fields S: a null clears
\* the preset; a string is stored and, when a preset has that id, its
\* visualization becomes active
set_active_visualization_preset(S, payload) ==
    [active_visualization_preset |->
          IF IsNone(payload) THEN S.active_visualization_preset
          ELSE IF payload[1].k = "null" THEN None
          ELSE IF IsSome(as_str(payload[1])) THEN Some(as_str(payload[1])[1])
          ELSE S.active_visualization_preset,
     active_visualization |->
          IF IsSome(payload) /\ IsSome(as_str(payload[1]))
             /\ IsSome(find_preset(S.visualization_presets, as_str(payload[1])[1]))
          THEN find_preset(S.visualization_presets,
                           as_str(payload[1])[1])[1].visualization_id
          ELSE S.active_visualization]

handle_command_set_active_visualization_preset(payload) ==
    /\ active_visualization_preset' =
          set_active_visualization_preset(config_fields, payload).active_visualization_preset
    /\ active_visualization' =
          set_active_visualization_preset(config_fields, payload).active_visualization
    /\ UNCHANGED <<visualization_presets, poisoned, config_base_path, common_settings, messages,
                   message_tree, default_text_style, message_stats,
                   folder_playback_queue, clock>>
    /\ respond("set-active-visualization-preset", payload, None, <<>>)

handle_command_set_common_settings(payload) ==
    /\ common_settings' =
          IF IsSome(payload) /\ IsSome(from_value_CommonSettings(payload[1]))
          THEN from_value_CommonSettings(payload[1])[1] ELSE common_settings
    /\ UNCHANGED <<visualization, poisoned, config_base_path, messages, message_tree, default_text_style, message_stats,
                   folder_playback_queue, clock>>
    /\ respond("set-common-settings", payload, None, <<>>)

handle_command_set_default_text_style(payload) ==
    /\ default_text_style' =
          IF IsSome(payload) /\ IsSome(as_str(payload[1]))
          THEN as_str(payload[1])[1] ELSE default_text_style
    /\ UNCHANGED <<visualization, poisoned, config_base_path, common_settings, messages, message_tree, message_stats,
                   folder_playback_queue, clock>>
    /\ respond("set-default-text-style", payload, None, <<>>)

handle_command_trigger_message(payload) ==
    LET msg == IF IsSome(payload) THEN decode_trigger_payload(payload[1]) ELSE None IN
    /\ message_stats' =
          IF IsSome(msg) /\ lock_ok(poisoned, "message_stats")
          THEN update_message_stats(message_stats, msg[1].id, clock)
          ELSE message_stats
    /\ clock' = IF IsSome(msg) THEN clock + 1 ELSE clock
    /\ UNCHANGED <<visualization, poisoned, config_base_path, common_settings, messages, message_tree, default_text_style,
                   folder_playback_queue>>
    /\ respond("trigger-message", payload, msg, <<>>)

\* trigger-message when the system clock reads a time before the Unix
\* epoch: duration_since(UNIX_EPOCH).unwrap() panics while the handler
\* holds the message_stats lock.  The lock is poisoned, the statistics are
\* as they were, and the request ends without broadcast or response.
handle_command_trigger_message_panic(payload) ==
    /\ IsSome(payload)
    /\ IsSome(decode_trigger_payload(payload[1]))
    /\ lock_ok(poisoned, "message_stats")
    /\ poisoned' = poisoned \cup {"message_stats"}
    /\ UNCHANGED <<visualization, config_base_path, common_settings, messages,
                   message_tree, default_text_style, message_stats,
                   folder_playback_queue, triggered_message, state_tx, command_tx,
                   emitted, display, lastCmd, clock, workers, sse>>

handle_command_set_messages(payload) ==
    LET ms == IF IsSome(payload) THEN decode_set_messages(payload[1]) ELSE None IN
    /\ messages' = IF IsSome(ms) THEN ms[1] ELSE messages
    /\ message_tree' = IF IsSome(ms) THEN build_flat_message_tree(ms[1]) ELSE message_tree
    /\ UNCHANGED <<visualization, poisoned, config_base_path, common_settings, default_text_style, message_stats,
                   folder_playback_queue, clock>>
    /\ respond("set-messages", payload, None, <<>>)

handle_command_set_message_tree(payload) ==
    /\ message_tree' = IF IsSome(payload) THEN payload[1] ELSE message_tree
    /\ messages' = IF IsSome(payload) THEN flatten_message_tree(payload[1]) ELSE messages
    /\ UNCHANGED <<visualization, poisoned, config_base_path, common_settings, default_text_style, message_stats,
                   folder_playback_queue, clock>>
    /\ respond("set-message-tree", payload, None, <<>>)

\* clear-active-message and message-complete share their code
advance_command(command, payload) ==
    LET r == IF IsSome(payload) /\ IsSome(get_str(payload[1], "messageId"))
                /\ lock_ok(poisoned, "folder_playback_queue")
             THEN advance_queue(folder_playback_queue, messages,
                                get_str(payload[1], "messageId")[1])
             ELSE [queue |-> folder_playback_queue, next_message |-> None,
                   should_clear_queue |-> FALSE]
    IN /\ folder_playback_queue' = IF r.should_clear_queue THEN None ELSE r.queue
       /\ UNCHANGED <<visualization, poisoned, config_base_path, common_settings, messages, message_tree, default_text_style,
                      message_stats, clock>>
       /\ respond(command, payload, r.next_message,
                  IF IsSome(r.next_message) THEN <<trigger_cmd(r.next_message[1])>> ELSE <<>>)

handle_command_clear_active_message(payload) ==
    advance_command("clear-active-message", payload)

\* message-complete for the current message of the queue when a println!
\* under the folder_playback_queue lock fails to write to stdout: the
\* handler panics holding the lock, before the index was advanced (the
\* first println!) or after (the second and the third).  The lock is
\* poisoned and the request ends without broadcast or response.
handle_command_message_complete_panic(payload, advanced) ==
    /\ IsSome(payload)
    /\ IsSome(get_str(payload[1], "messageId"))
    /\ lock_ok(poisoned, "folder_playback_queue")
    /\ IsSome(folder_playback_queue)
    /\ is_current_message(folder_playback_queue[1], get_str(payload[1], "messageId")[1])
    /\ poisoned' = poisoned \cup {"folder_playback_queue"}
    /\ folder_playback_queue' =
          IF advanced
          THEN advance_queue(folder_playback_queue, messages,
                             get_str(payload[1], "messageId")[1]).queue
          ELSE folder_playback_queue
    /\ UNCHANGED <<visualization, config_base_path, common_settings, messages,
                   message_tree, default_text_style, message_stats,
                   triggered_message, state_tx, command_tx,
                   emitted, display, lastCmd, clock, workers, sse>>

handle_command_message_complete(payload) ==
    advance_command("message-complete", payload)

\* play-folder: the ids collected under the message_tree lock
play_folder_ids(payload, tree) ==
    IF IsSome(payload) /\ IsSome(get_str(payload[1], "folderId"))
    THEN collect_messages_from_folder(get_str(payload[1], "folderId")[1], tree)
    ELSE <<>>

\* play-folder: the first message, looked up under the messages lock
play_folder_first(message_ids, msgs) ==
    IF Len(message_ids) > 0 THEN find_by_id(msgs, message_ids[1]) ELSE None

handle_command_play_folder(payload) ==
    LET message_ids == play_folder_ids(payload, message_tree)
        first == play_folder_first(message_ids, messages)
    IN /\ folder_playback_queue' =
             IF Len(message_ids) > 0 /\ lock_ok(poisoned, "folder_playback_queue")
             THEN Some(FolderPlaybackQueue(get_str(payload[1], "folderId")[1], message_ids, 0))
             ELSE folder_playback_queue
       /\ UNCHANGED <<visualization, poisoned, config_base_path, common_settings, messages, message_tree, default_text_style,
                      message_stats, clock>>
       /\ respond("play-folder", payload, first,
                  IF IsSome(first) THEN <<trigger_cmd(first[1])>> ELSE <<>>)

\* faulty variant of handle_command_cancel_folder_playback: the queue is left in place
handle_command_cancel_folder_playback_keep(payload) ==
    /\ UNCHANGED <<visualization, poisoned, config_base_path, common_settings, messages, message_tree, default_text_style,
                   message_stats, folder_playback_queue, clock>>
    /\ respond("cancel-folder-playback", payload, None, <<clear_cmd>>)

handle_command_cancel_folder_playback(payload) ==
    /\ folder_playback_queue' = IF lock_ok(poisoned, "folder_playback_queue") THEN None
                                ELSE folder_playback_queue
    /\ UNCHANGED <<visualization, poisoned, config_base_path, common_settings, messages, message_tree, default_text_style,
                   message_stats, clock>>
    /\ respond("cancel-folder-playback", payload, None, <<clear_cmd>>)

handle_command_reset_message_stats(payload) ==
    /\ message_stats' = IF lock_ok(poisoned, "message_stats") THEN JObj(EmptyMap)
                        ELSE message_stats
    /\ UNCHANGED <<visualization, poisoned, config_base_path, common_settings, messages, message_tree, default_text_style,
                   folder_playback_queue, clock>>
    /\ respond("reset-message-stats", payload, None, <<>>)

handle_command_load_configuration(payload) ==
    \E S \in {IF IsSome(payload) THEN server_load_configuration(config_fields, payload[1])
                ELSE config_fields} :
       /\ active_visualization' = S.active_visualization
       /\ visualization_presets' = S.visualization_presets
       /\ active_visualization_preset' = S.active_visualization_preset
       /\ common_settings' = S.common_settings
       /\ messages' = S.messages
       /\ message_tree' = S.message_tree
       /\ default_text_style' = S.default_text_style
       /\ message_stats' = S.message_stats
       /\ UNCHANGED <<poisoned, config_base_path, folder_playback_queue, clock>>
       /\ respond("load-configuration", payload, None, <<>>)

(***************************************************************************)
(* emit_state_change (the window entry point) and load_config_from_file.   *)
(***************************************************************************)
\* the tail of emit_state_change: broadcast(triggered_message), emit "state-changed"
state_changed(event_type, payload_value, triggered) ==
    /\ triggered_message' = triggered
    /\ state_tx' = Some(get_state')
    /\ emitted' = <<[event |-> "state-changed",
                     payload |-> JObj([type |-> JStr(event_type),
                                       payload |-> payload_value])]>>
    /\ lastCmd' = [entry |-> "window", command |-> event_type, result |-> "()",
                   payload |-> Some(payload_value),
                   queue_before |-> folder_playback_queue]
    /\ sse' = publish_state(sse, get_state')
    /\ UNCHANGED <<command_tx, workers, display>>

emit_state_change_SET_MESSAGES(payload_value) ==
    /\ messages' = IF IsSome(from_value_Vec_MessageConfig(payload_value))
                   THEN from_value_Vec_MessageConfig(payload_value)[1] ELSE messages
    /\ UNCHANGED <<visualization, poisoned, config_base_path, common_settings, message_tree, default_text_style, message_stats,
                   folder_playback_queue, clock>>
    /\ state_changed("SET_MESSAGES", payload_value, None)

emit_state_change_SET_MESSAGE_TREE(payload_value) ==
    /\ message_tree' = payload_value
    /\ messages' = flatten_message_tree_value(payload_value)
    /\ UNCHANGED <<visualization, poisoned, config_base_path, common_settings, default_text_style, message_stats,
                   folder_playback_queue, clock>>
    /\ state_changed("SET_MESSAGE_TREE", payload_value, None)

emit_state_change_LOAD_CONFIGURATION(payload_value) ==
    \E S \in {app_load_configuration(config_fields, payload_value)} :
       /\ active_visualization' = S.active_visualization
       /\ visualization_presets' = S.visualization_presets
       /\ active_visualization_preset' = S.active_visualization_preset
       /\ common_settings' = S.common_settings
       /\ messages' = S.messages
       /\ message_tree' = S.message_tree
       /\ default_text_style' = S.default_text_style
       /\ message_stats' = S.message_stats
       /\ UNCHANGED <<poisoned, config_base_path, folder_playback_queue, clock>>
       /\ state_changed("LOAD_CONFIGURATION", payload_value, None)

\* a configuration file: whether the path exists, whether it can be read
\* as text, the directory that holds it and, when the text is JSON, the
\* document it denotes
File(config) == [exists |-> TRUE, readable |-> TRUE, dir |-> "/etc/vibecast",
                 json |-> Some(config)]
InvalidFile == [exists |-> TRUE, readable |-> TRUE, dir |-> "/etc/vibecast", json |-> None]
UnreadableFile == [exists |-> TRUE, readable |-> FALSE, dir |-> "/etc/vibecast", json |-> None]
MissingFile == [exists |-> FALSE, readable |-> FALSE, dir |-> "/etc/vibecast", json |-> None]

\* the Result of load_config_from_file
load_config_result(file) ==
    IF ~file.exists THEN "Err: Config file does not exist"
    ELSE IF ~file.readable THEN "Err: Failed to read config file"
    ELSE IF IsNone(file.json) THEN "Err: Failed to parse config JSON"
    ELSE "Ok"

\* faulty variant of load_config_file_fields: a file that does not parse is
\* treated as the empty document
load_config_file_fields_lenient(S, file) ==
    IF load_config_result(file) = "Ok" THEN state_load_config(S, file.json[1])
    ELSE state_load_config(S, JObj(EmptyMap))

\* the fields after load_config_from_file: every early return leaves them
load_config_file_fields(S, file) ==
    IF load_config_result(file) = "Ok" THEN state_load_config(S, file.json[1]) ELSE S

\* load_config_from_file: the path check, the base path, read, parse, the
\* keys of the document, broadcast(None)
load_config_from_file(file) ==
    /\ \E S \in {load_config_file_fields(config_fields, file)} :
          /\ active_visualization' = S.active_visualization
          /\ visualization_presets' = S.visualization_presets
          /\ active_visualization_preset' = S.active_visualization_preset
          /\ common_settings' = S.common_settings
          /\ messages' = S.messages
          /\ message_tree' = S.message_tree
          /\ default_text_style' = S.default_text_style
          /\ message_stats' = S.message_stats
    /\ config_base_path' = IF file.exists THEN Some(file.dir) ELSE config_base_path
    /\ UNCHANGED <<poisoned, folder_playback_queue, clock, command_tx, workers, display>>
    /\ IF load_config_result(file) = "Ok"
       THEN /\ triggered_message' = None
            /\ state_tx' = Some(get_state')
            /\ sse' = publish_state(sse, get_state')
       ELSE UNCHANGED <<triggered_message, state_tx, sse>>
    /\ emitted' = <<>>
    /\ lastCmd' = [entry |-> "file", command |-> "load_config_from_file",
                   payload |-> file.json,
                   queue_before |-> folder_playback_queue,
                   result |-> load_config_result(file)]

(***************************************************************************)
(* Inputs.                                                                 *)
(***************************************************************************)
MsgA == JObj([id |-> JStr("a"), text |-> JStr("One"), textStyle |-> JStr("scrolling-capitals")])
MsgB == JObj([id |-> JStr("b"), text |-> JStr("Two"), textStyle |-> JStr("bounce"),
              collapsed |-> JBool(FALSE)])
\* a message object that has an id but does not decode (no textStyle)
MsgC == JObj([id |-> JStr("c"), text |-> JStr("Three")])

MessageNode(msg) ==
    JObj([type |-> JStr("message"), id |-> msg.fields["id"], message |-> msg])

FolderNode(id, children) ==
    JObj([type |-> JStr("folder"), id |-> JStr(id), name |-> JStr("Folder"),
          children |-> JArr(children)])

\* F = [a, G = [b]], E = []
Tree1 ==
    JArr(<< FolderNode("F", << MessageNode(MsgA), FolderNode("G", << MessageNode(MsgB) >>) >>),
            FolderNode("E", << >>) >>)

\* F = [a, a] (a duplicated id), a node of unknown type,
\* G = [c, a] and H = [a, c] (c does not decode)
Tree2 ==
    JArr(<< FolderNode("F", << MessageNode(MsgA), MessageNode(MsgA) >>),
            JObj([type |-> JStr("separator")]),
            FolderNode("G", << MessageNode(MsgC), MessageNode(MsgA) >>),
            FolderNode("H", << MessageNode(MsgA), MessageNode(MsgC) >>) >>)

TreePayloads == {Some(Tree1), Some(Tree2), None}

MessagesPayloads ==
    {Some(JArr(<<MsgA, MsgB>>)), Some(JArr(<<JStr("hello")>>)), Some(JNum(0))}

WindowMessagesPayloads == {JArr(<<MsgB>>), JNull}

FolderIds == {"party-countdown", "F", "G", "H", "E"}

PlayFolderPayloads ==
    {Some(JObj([folderId |-> JStr(f)])) : f \in FolderIds} \cup {None}

MessageIds == {"msg-1", "msg-2", "msg-3", "a", "b", "c"}

AdvancePayloads ==
    {Some(JObj([messageId |-> JStr(m)])) : m \in MessageIds}
    \cup {Some(JObj([messageId |-> JNum(1)]))}

TriggerPayloads == {Some(MsgA), Some(JStr("hello")), Some(MsgC)}

CommonSettingsPayloads ==
    {Some(JObj([intensity |-> JNum(2), dim |-> JNum(0)])), Some(JObj([intensity |-> JNum(2)]))}

TextStylePayloads == {Some(JStr("bounce")), None}

ConfigDocs ==
    {JObj([messages |-> JArr(<<MsgA>>), messageTree |-> Tree1]),
     JObj([messages |-> JArr(<<MsgB>>)]),
     JObj([defaultTextStyle |-> JStr("typewriter")]),
     JArr(<<>>)}

\* the largest clock value at which a trigger-message is still taken
MaxTriggers == 3
MaxStatsTriggers == 52

(***************************************************************************)
(* Spec: the folder playback engine, one request at a time.                *)
(***************************************************************************)
Next ==
    \/ \E p \in TreePayloads : handle_command_set_message_tree(p)
    \/ \E p \in PlayFolderPayloads : handle_command_play_folder(p)
    \/ \E p \in AdvancePayloads : handle_command_clear_active_message(p)
    \/ \E p \in AdvancePayloads : handle_command_message_complete(p)
    \/ handle_command_cancel_folder_playback(None)

Spec == Init /\ [][Next]_vars

(***************************************************************************)
(* SpecTree: the writers of messages and message_tree, one request at a    *)
(* time.                                                                   *)
(***************************************************************************)
NextTree ==
    \/ \E p \in MessagesPayloads : handle_command_set_messages(p)
    \/ \E p \in TreePayloads : handle_command_set_message_tree(p)
    \/ \E d \in ConfigDocs : handle_command_load_configuration(Some(d))
    \/ \E pv \in WindowMessagesPayloads : emit_state_change_SET_MESSAGES(pv)
    \/ \E pv \in {Tree1, Tree2} : emit_state_change_SET_MESSAGE_TREE(pv)
    \/ \E d \in ConfigDocs : emit_state_change_LOAD_CONFIGURATION(d)
    \/ \E d \in ConfigDocs : load_config_from_file(File(d))

SpecTree == Init /\ [][NextTree]_vars

(***************************************************************************)
(* SpecTrigger: trigger-message among commands that produce no trigger.    *)
(***************************************************************************)
NextTrigger ==
    \/ \E p \in TriggerPayloads : clock <= MaxTriggers /\ handle_command_trigger_message(p)
    \/ \E p \in CommonSettingsPayloads : handle_command_set_common_settings(p)
    \/ \E p \in TextStylePayloads : handle_command_set_default_text_style(p)
    \/ handle_command_reset_message_stats(None)

SpecTrigger == Init /\ [][NextTrigger]_vars

(***************************************************************************)
(* SpecStats: many triggers of one message id.                             *)
(***************************************************************************)
NextStats ==
    \/ clock <= MaxStatsTriggers /\ handle_command_trigger_message(Some(MsgA))
    \/ handle_command_reset_message_stats(None)

SpecStats == Init /\ [][NextStats]_vars

(***************************************************************************)
(* SpecStatsLoad: triggers among configuration documents that carry a      *)
(* messageStats document.                                                  *)
(***************************************************************************)
\* a stats entry as the frontend saves it, with n history records
StatsEntry(id, n) ==
    JObj([messageId |-> JStr(id), triggerCount |-> JNum(n), lastTriggered |-> JNum(n),
          history |-> JArr([i \in 1..n |-> JObj([timestamp |-> JNum(i)])])])

\* documents whose messageStats has one record more than the cap, two
\* records, and no object at all
StatsConfigDocs ==
    {JObj([messageStats |-> JObj([a |-> StatsEntry("a", HistoryCap + 1)])]),
     JObj([messageStats |-> JObj([a |-> StatsEntry("a", 2)])]),
     JObj([messageStats |-> JArr(<<>>)])}

NextStatsLoad ==
    \/ \E p \in {Some(MsgA), Some(MsgB)} :
          clock <= MaxTriggers /\ handle_command_trigger_message(p)
    \/ \E d \in StatsConfigDocs : handle_command_load_configuration(Some(d))
    \/ \E d \in StatsConfigDocs : emit_state_change_LOAD_CONFIGURATION(d)
    \/ \E d \in StatsConfigDocs : load_config_from_file(File(d))
    \/ handle_command_reset_message_stats(None)

SpecStatsLoad == Init /\ [][NextStatsLoad]_vars

(***************************************************************************)
(* SpecViz: the visualization selection: preset lists, the active preset   *)
(* and the active visualization, by command and by configuration load.     *)
(***************************************************************************)
Preset(id, visualization_id) ==
    JObj([id |-> JStr(id), name |-> JStr("Preset"),
          visualizationId |-> JStr(visualization_id),
          settings |-> JObj([speed |-> JDec("0.5")])])

\* a list in which the id "dup" occurs twice, with different visualizations
PresetList == JArr(<<Preset("p1", "techno"), Preset("dup", "particles"),
                     Preset("dup", "youtube")>>)

\* a list whose second preset has no settings, and a value that is no list
BadPresetList == JArr(<<Preset("p1", "techno"),
                        JObj([id |-> JStr("p2"), name |-> JStr("Preset"),
                              visualizationId |-> JStr("youtube")])>>)

PresetsPayloads == {Some(PresetList), Some(BadPresetList), Some(JStr("presets")), None}

PresetIds == {"dup", "p1", "techno-default", "no-such-preset"}

\* the payload member of a set-active-visualization-preset request body
PresetMembers == {Some(JStr(P)) : P \in PresetIds} \cup {Some(JNull), Some(JNum(3)), None}

\* documents that hold only the key activeVisualizationPreset
PresetDocs == {JObj([activeVisualizationPreset |-> JStr(P)]) : P \in PresetIds}

NextViz ==
    \/ \E p \in PresetsPayloads : handle_command_set_visualization_presets(p)
    \/ \E m \in PresetMembers :
          handle_command_set_active_visualization_preset(decode_payload(m))
    \/ \E c \in {"set-mode", "set-active-visualization"},
          p \in {Some(JStr("fireplace")), Some(JNum(1))} :
          handle_command_set_active_visualization(c, p)
    \/ \E d \in PresetDocs : handle_command_load_configuration(Some(d))

SpecViz == Init /\ [][NextViz]_vars

(***************************************************************************)
(* SpecLoad: configuration documents loaded by the remote command, by the  *)
(* window event and from a file.                                           *)
(***************************************************************************)
MsgD == JObj([id |-> JStr("d"), text |-> JStr("Three"), textStyle |-> JStr("scrolling-capitals")])

StatsDoc == JObj([a |-> JObj([messageId |-> JStr("a"), triggerCount |-> JNum(7)])])

LoadDocs ==
    {\* commonSettings without dim, beside two well-formed keys
     JObj([commonSettings |-> JObj([intensity |-> JNum(2)]),
           defaultTextStyle |-> JStr("bounce"),
           activeVisualization |-> JStr("techno")]),
     \* visualizationPresets that is no list, beside well-formed keys
     JObj([visualizationPresets |-> JStr("presets"),
           commonSettings |-> JObj([intensity |-> JNum(2), dim |-> JNum(3)]),
           messages |-> JArr(<<MsgA>>)]),
     \* a preset without settings in the list
     JObj([visualizationPresets |-> BadPresetList,
           activeVisualizationPreset |-> JStr("p1"),
           messageStats |-> StatsDoc]),
     \* messages with an element that does not decode, a style that is no string
     JObj([visualizationPresets |-> PresetList,
           messages |-> JArr(<<MsgA, MsgC>>),
           defaultTextStyle |-> JNum(5),
           activeVisualization |-> JNull]),
     \* one key only
     JObj([defaultTextStyle |-> JStr("typewriter")]),
     \* no key, and a document that is no object
     JObj(EmptyMap),
     JArr(<<MsgA>>)}

LoadFiles == {File(d) : d \in LoadDocs} \cup {InvalidFile, UnreadableFile, MissingFile}

NextLoad ==
    \/ \E d \in LoadDocs : handle_command_load_configuration(Some(d))
    \/ \E d \in LoadDocs : emit_state_change_LOAD_CONFIGURATION(d)
    \/ \E f \in LoadFiles : load_config_from_file(f)

SpecLoad == Init /\ [][NextLoad]_vars

(***************************************************************************)
(* SpecLoadTree: configuration documents with messages and message trees.  *)
(***************************************************************************)
TreeDocs ==
    {\* three messages, and the same three wrapped in one folder
     JObj([messages |-> JArr(<<MsgA, MsgB, MsgD>>),
           messageTree |-> JArr(<<FolderNode("folder-1",
               <<MessageNode(MsgA), MessageNode(MsgB), MessageNode(MsgD)>>)>>)]),
     \* a message list that disagrees with the tree
     JObj([messages |-> JArr(<<MsgD>>), messageTree |-> Tree2]),
     \* a tree only
     JObj([messageTree |-> Tree1]),
     \* a message list without a tree, beside other keys
     JObj([messages |-> JArr(<<MsgB>>),
           defaultTextStyle |-> JStr("bounce"),
           activeVisualizationPreset |-> JStr("techno-default")]),
     \* a message list that does not decode
     JObj([messages |-> JArr(<<MsgC>>)])}

NextLoadTree ==
    \/ \E d \in TreeDocs : handle_command_load_configuration(Some(d))
    \/ \E d \in TreeDocs : emit_state_change_LOAD_CONFIGURATION(d)
    \/ \E d \in TreeDocs : load_config_from_file(File(d))

SpecLoadTree == Init /\ [][NextLoadTree]_vars

(***************************************************************************)
(* SpecPoison: commands and snapshots after a panic poisoned a lock.       *)
(* message_stats and folder_playback_queue are the locks that are held     *)
(* across code that can panic (an unwrap, a println!).                     *)
(***************************************************************************)
PoisonDocs ==
    {JObj([messageStats |-> StatsDoc, defaultTextStyle |-> JStr("bounce")]),
     JObj([messageStats |-> JObj(EmptyMap), commonSettings |->
              JObj([intensity |-> JNum(2), dim |-> JNum(3)])])}

PoisonFolderPayloads == {Some(JObj([folderId |-> JStr("party-countdown")]))}

PoisonAdvancePayloads == {Some(JObj([messageId |-> JStr(m)])) : m \in {"msg-1", "msg-2"}}

NextPoison ==
    \/ \E p \in TriggerPayloads : clock <= MaxTriggers /\ handle_command_trigger_message(p)
    \/ \E p \in TriggerPayloads : handle_command_trigger_message_panic(p)
    \/ handle_command_reset_message_stats(None)
    \/ \E d \in PoisonDocs : handle_command_load_configuration(Some(d))
    \/ \E p \in PoisonFolderPayloads : handle_command_play_folder(p)
    \/ \E p \in PoisonAdvancePayloads : handle_command_message_complete(p)
    \/ \E p \in PoisonAdvancePayloads, advanced \in BOOLEAN :
          handle_command_message_complete_panic(p, advanced)
    \/ handle_command_cancel_folder_playback(None)

SpecPoison == Init /\ [][NextPoison]_vars

(***************************************************************************)
(* SpecUnknown: commands with names outside the command table, after       *)
(* triggers and play-folder.                                               *)
(***************************************************************************)
\* a known name in another letter case, an upper-case one, an unknown one
\* and the empty name
UnknownCommands == {"Trigger-Message", "PLAY-FOLDER", "no-such-command", ""}

NextUnknown ==
    \/ \E p \in TriggerPayloads : clock <= MaxTriggers /\ handle_command_trigger_message(p)
    \/ \E p \in PlayFolderPayloads : handle_command_play_folder(p)
    \/ \E c \in UnknownCommands, p \in {None, Some(MsgA)} : handle_command_unknown(c, p)

SpecUnknown == Init /\ [][NextUnknown]_vars

(***************************************************************************)
(* SpecConc: two requests in progress at the same time.  A step is one     *)
(* critical section (the code between taking a field's lock and releasing  *)
(* it), one send on a feed, or the return of the request.                  *)
(***************************************************************************)
\* the order in which get_state locks and clones the fields.  In each
\* concurrent specification at most one field of a group is written by a
\* step, so the clones of a group are taken together.
snapshot_order ==
    <<<<"active_visualization", "common_settings", "visualization_presets",
        "active_visualization_preset", "messages">>,
      <<"message_tree", "default_text_style", "message_stats">>,
      <<"folder_playback_queue">>,
      <<"triggered_message">>>>

field_value(name) ==
    CASE name = "active_visualization" -> active_visualization
      [] name = "visualization_presets" -> visualization_presets
      [] name = "active_visualization_preset" -> active_visualization_preset
      [] name = "common_settings" -> common_settings
      [] name = "messages" -> messages
      [] name = "message_tree" -> message_tree
      [] name = "default_text_style" -> default_text_style
      [] name = "message_stats" -> clone_message_stats
      [] name = "folder_playback_queue" -> clone_folder_playback_queue
      [] OTHER -> triggered_message

\* the clones taken by the n-th lock step of get_state
clone_fields(n) ==
    [k \in 1..Len(snapshot_order[n]) |-> field_value(snapshot_order[n][k])]

\* the lock step that follows when `cloned` fields have been cloned
next_clone(cloned) ==
    CASE cloned = 0 -> 1 [] cloned = 5 -> 2 [] cloned = 8 -> 3 [] OTHER -> 4

\* faulty variant of mode_of: the mode is read from the store when the
\* snapshot is assembled
mode_of_store(snap) == active_visualization

\* let mode = active_visualization.clone(): the legacy mode is the clone of
\* the active visualization taken by the first lock step
mode_of(snap) == snap[1]

\* the BroadcastState assembled from the clones, taken in snapshot_order
snapshot_of(snap) ==
    [active_visualization |-> snap[1],
     visualization_presets |-> snap[3],
     active_visualization_preset |-> snap[4],
     mode |-> mode_of(snap),
     common_settings |-> snap[2],
     messages |-> snap[5],
     message_tree |-> snap[6],
     default_text_style |-> snap[7],
     message_stats |-> snap[8],
     triggered_message |-> snap[10],
     folder_playback_queue |-> snap[9]]

\* the number of requests accepted in a run of SpecConc
MaxRequests == 3

\* a request is picked up by the first idle worker
accept(w) ==
    /\ workers[w].pc = "idle"
    /\ \A v \in Workers : v < w => workers[v].pc # "idle"
    /\ clock <= MaxRequests
    /\ clock' = clock + 1

start(w, command, payload, pc) ==
    [idle_worker EXCEPT !.pc = pc, !.command = command, !.payload = payload]

\* message-complete / clear-active-message: the section under the queue lock
conc_advance_lock(w, command, payload) ==
    /\ accept(w)
    /\ LET has_id == IsSome(payload) /\ IsSome(get_str(payload[1], "messageId"))
           r == IF has_id
                THEN advance_queue(folder_playback_queue, messages,
                                   get_str(payload[1], "messageId")[1])
                ELSE [queue |-> folder_playback_queue, next_message |-> None,
                      should_clear_queue |-> FALSE]
       IN /\ folder_playback_queue' = r.queue
          /\ workers' = [workers EXCEPT ![w] =
                [start(w, command, payload,
                       IF r.should_clear_queue THEN "clear" ELSE "broadcast")
                 EXCEPT !.triggered = r.next_message,
                        !.advanced = IF r.queue # folder_playback_queue
                                     THEN folder_playback_queue ELSE None]]
    /\ UNCHANGED <<visualization, poisoned, config_base_path, common_settings, messages, message_tree, default_text_style,
                   message_stats, triggered_message, state_tx, command_tx, sse,
                   emitted, display, lastCmd>>

\* message-complete / clear-active-message: if should_clear_queue, lock again
conc_clear_queue(w) ==
    /\ workers[w].pc = "clear"
    /\ folder_playback_queue' = None
    /\ workers' = [workers EXCEPT ![w].pc = "broadcast"]
    /\ UNCHANGED <<visualization, poisoned, config_base_path, common_settings, messages, message_tree, default_text_style,
                   message_stats, triggered_message, state_tx, command_tx, sse,
                   emitted, display, lastCmd, clock>>

\* play-folder: collect the ids under the message_tree lock
conc_play_folder_collect(w, payload) ==
    /\ accept(w)
    /\ LET message_ids == play_folder_ids(payload, message_tree)
       IN workers' = [workers EXCEPT ![w] =
             [start(w, "play-folder", payload,
                    IF Len(message_ids) > 0 THEN "install" ELSE "broadcast")
              EXCEPT !.message_ids = message_ids]]
    /\ UNCHANGED <<store, state_tx, command_tx, sse, emitted, display, lastCmd>>

\* play-folder: set up the queue under the queue lock
conc_play_folder_install(w) ==
    /\ workers[w].pc = "install"
    /\ folder_playback_queue' =
          Some(FolderPlaybackQueue(get_str(workers[w].payload[1], "folderId")[1],
                                   workers[w].message_ids, 0))
    /\ workers' = [v \in Workers |->
          IF v = w THEN [workers[w] EXCEPT !.pc = "first"]
          ELSE [workers[v] EXCEPT !.superseded = IsSome(workers[v].advanced)]]
    /\ UNCHANGED <<visualization, poisoned, config_base_path, common_settings, messages, message_tree, default_text_style,
                   message_stats, triggered_message, state_tx, command_tx, sse,
                   emitted, display, lastCmd, clock>>

\* play-folder: look the first message up under the messages lock and emit it
conc_play_folder_first(w) ==
    /\ workers[w].pc = "first"
    /\ LET first == play_folder_first(workers[w].message_ids, messages)
       IN workers' = [workers EXCEPT ![w] =
             [@ EXCEPT !.pc = "broadcast", !.triggered = first,
                       !.emits = IF IsSome(first) THEN <<trigger_cmd(first[1])>> ELSE <<>>]]
    /\ UNCHANGED <<store, state_tx, command_tx, sse, emitted, display, lastCmd, clock>>

\* cancel-folder-playback: clear the queue, emit clear-message
conc_cancel_folder_playback(w, payload) ==
    /\ accept(w)
    /\ folder_playback_queue' = None
    /\ workers' = [workers EXCEPT ![w] =
          [start(w, "cancel-folder-playback", payload, "broadcast")
           EXCEPT !.emits = <<clear_cmd>>]]
    /\ UNCHANGED <<visualization, poisoned, config_base_path, common_settings, messages, message_tree, default_text_style,
                   message_stats, triggered_message, state_tx, command_tx, sse,
                   emitted, display, lastCmd>>

\* GET /api/state: the handler calls get_state and returns the snapshot
conc_get_state(w) ==
    /\ accept(w)
    /\ workers' = [workers EXCEPT ![w] = start(w, "get-state", None, "snapshot")]
    /\ UNCHANGED <<store, state_tx, command_tx, sse, emitted, display, lastCmd>>

\* broadcast: store the request's triggered message (after the trigger of a
\* next message was emitted to the windows)
conc_broadcast(w) ==
    /\ workers[w].pc = "broadcast"
    /\ triggered_message' = workers[w].triggered
    /\ workers' = [workers EXCEPT ![w] =
          [@ EXCEPT !.pc = "snapshot",
                    !.emits = IF workers[w].command \in {"message-complete", "clear-active-message"}
                                 /\ IsSome(workers[w].triggered)
                              THEN <<trigger_cmd(workers[w].triggered[1])>>
                              ELSE @]]
    /\ UNCHANGED <<visualization, poisoned, config_base_path, common_settings, messages, message_tree, default_text_style,
                   message_stats, folder_playback_queue, state_tx, command_tx, sse,
                   emitted, display, lastCmd, clock>>

\* get_state: lock and clone the next fields
conc_snapshot(w) ==
    /\ workers[w].pc = "snapshot"
    /\ LET snap == workers[w].snap \o clone_fields(next_clone(Len(workers[w].snap)))
       IN workers' = [workers EXCEPT ![w] =
             [@ EXCEPT !.snap = snap,
                       !.pc = IF Len(snap) < 10 THEN "snapshot"
                              ELSE IF workers[w].command = "get-state" THEN "return"
                              ELSE "send"]]
    /\ UNCHANGED <<store, state_tx, command_tx, sse, emitted, display, lastCmd, clock>>

\* GET /api/state: respond with the snapshot
conc_return(w) ==
    /\ workers[w].pc = "return"
    /\ workers' = [workers EXCEPT ![w] = idle_worker]
    /\ UNCHANGED <<store, state_tx, command_tx, sse, emitted, display, lastCmd, clock>>

\* broadcast: send the snapshot on the state feed
conc_send(w) ==
    /\ workers[w].pc = "send"
    /\ state_tx' = Some(snapshot_of(workers[w].snap))
    /\ sse' = publish_state(sse, snapshot_of(workers[w].snap))
    /\ workers' = [workers EXCEPT ![w].pc = "echo"]
    /\ UNCHANGED <<store, command_tx, emitted, display, lastCmd, clock>>

\* broadcast_command, emit of the command to the windows, response
conc_echo(w) ==
    /\ workers[w].pc = "echo"
    /\ command_tx' = Some(RemoteCommand(workers[w].command, workers[w].payload))
    /\ sse' = publish_command(sse, RemoteCommand(workers[w].command, workers[w].payload))
    /\ emitted' = Append(workers[w].emits,
                         [event |-> "remote-command",
                          payload |-> to_value_RemoteCommand(
                              RemoteCommand(workers[w].command, workers[w].payload))])
    /\ display' = show(display, workers[w].command, workers[w].payload, workers[w].emits)
    /\ workers' = [workers EXCEPT ![w] = idle_worker]
    /\ UNCHANGED <<store, state_tx, lastCmd, clock>>

ConcTreePayloads == {Some(Tree2)}

ConcPlayFolderPayloads ==
    {Some(JObj([folderId |-> JStr(f)])) : f \in {"party-countdown", "F"}}

ConcAdvancePayloads ==
    {Some(JObj([messageId |-> JStr(m)])) : m \in {"msg-1", "a"}}

\* the tree is replaced while no other request is in progress
quiescent_set_message_tree(payload) ==
    /\ \A w \in Workers : workers[w].pc = "idle"
    /\ handle_command_set_message_tree(payload)

NextConc ==
    \/ \E p \in ConcTreePayloads : quiescent_set_message_tree(p)
    \/ \E w \in Workers :
        \/ \E p \in ConcAdvancePayloads : conc_advance_lock(w, "message-complete", p)
        \/ \E p \in ConcAdvancePayloads : conc_advance_lock(w, "clear-active-message", p)
        \/ conc_clear_queue(w)
        \/ \E p \in ConcPlayFolderPayloads : conc_play_folder_collect(w, p)
        \/ conc_play_folder_install(w)
        \/ conc_play_folder_first(w)
        \/ conc_cancel_folder_playback(w, None)
        \/ conc_get_state(w)
        \/ conc_broadcast(w)
        \/ conc_snapshot(w)
        \/ conc_return(w)
        \/ conc_send(w)
        \/ conc_echo(w)

SpecConc == Init /\ [][NextConc]_vars

(***************************************************************************)
(* SpecConcTrigger: trigger-message and reset-message-stats requests in    *)
(* progress at the same time.                                              *)
(***************************************************************************)
\* trigger-message: decode the payload, then the section under the
\* message_stats lock
conc_trigger_message(w, payload) ==
    /\ accept(w)
    /\ LET msg == IF IsSome(payload) THEN decode_trigger_payload(payload[1]) ELSE None
       IN /\ message_stats' =
                IF IsSome(msg) /\ lock_ok(poisoned, "message_stats")
                THEN update_message_stats(message_stats, msg[1].id, clock)
                ELSE message_stats
          /\ workers' = [workers EXCEPT ![w] =
                [start(w, "trigger-message", payload, "broadcast")
                 EXCEPT !.triggered = msg]]
    /\ UNCHANGED <<visualization, poisoned, config_base_path, common_settings, messages, message_tree, default_text_style,
                   folder_playback_queue, triggered_message, state_tx, command_tx, sse,
                   emitted, display, lastCmd>>

\* reset-message-stats: the section under the message_stats lock
conc_reset_message_stats(w, payload) ==
    /\ accept(w)
    /\ message_stats' = IF lock_ok(poisoned, "message_stats") THEN JObj(EmptyMap)
                        ELSE message_stats
    /\ workers' = [workers EXCEPT ![w] =
          start(w, "reset-message-stats", payload, "broadcast")]
    /\ UNCHANGED <<visualization, poisoned, config_base_path, common_settings, messages, message_tree, default_text_style,
                   folder_playback_queue, triggered_message, state_tx, command_tx, sse,
                   emitted, display, lastCmd>>

\* two ids that decode and one that does not
ConcTriggerPayloads == {Some(MsgA), Some(MsgB), Some(MsgC)}

NextConcTrigger ==
    \E w \in Workers :
        \/ \E p \in ConcTriggerPayloads : conc_trigger_message(w, p)
        \/ conc_reset_message_stats(w, None)
        \/ conc_broadcast(w)
        \/ conc_snapshot(w)
        \/ conc_send(w)
        \/ conc_echo(w)

SpecConcTrigger == Init /\ [][NextConcTrigger]_vars

(***************************************************************************)
(* SpecConcTree: set-message-tree requests and GET /api/state requests in  *)
(* progress at the same time.                                              *)
(***************************************************************************)
\* set-message-tree: the section under the message_tree lock
conc_set_message_tree(w, payload) ==
    /\ accept(w)
    /\ message_tree' = IF IsSome(payload) THEN payload[1] ELSE message_tree
    /\ workers' = [workers EXCEPT ![w] =
          start(w, "set-message-tree", payload,
                IF IsSome(payload) THEN "flatten" ELSE "broadcast")]
    /\ UNCHANGED <<visualization, poisoned, config_base_path, common_settings, messages, default_text_style, message_stats,
                   folder_playback_queue, triggered_message, state_tx, command_tx, sse,
                   emitted, display, lastCmd>>

\* set-message-tree: flatten the payload, then the section under the
\* messages lock
conc_set_message_tree_flat(w) ==
    /\ workers[w].pc = "flatten"
    /\ messages' = flatten_message_tree(workers[w].payload[1])
    /\ workers' = [workers EXCEPT ![w].pc = "broadcast"]
    /\ UNCHANGED <<visualization, poisoned, config_base_path, common_settings, message_tree, default_text_style, message_stats,
                   folder_playback_queue, triggered_message, state_tx, command_tx, sse,
                   emitted, display, lastCmd, clock>>

NextConcTree ==
    \E w \in Workers :
        \/ \E p \in {Some(Tree1), Some(Tree2), None} : conc_set_message_tree(w, p)
        \/ conc_set_message_tree_flat(w)
        \/ conc_get_state(w)
        \/ conc_broadcast(w)
        \/ conc_snapshot(w)
        \/ conc_return(w)
        \/ conc_send(w)
        \/ conc_echo(w)

SpecConcTree == Init /\ [][NextConcTree]_vars

(***************************************************************************)
(* SpecConcViz: set-mode and set-active-visualization concurrent with      *)
(* each other and with GET /api/state.                                     *)
(***************************************************************************)
\* set-mode / set-active-visualization: the section under the
\* active_visualization lock
conc_set_active_visualization(w, command, payload) ==
    /\ accept(w)
    /\ active_visualization' =
          IF IsSome(payload) /\ IsSome(as_str(payload[1]))
          THEN as_str(payload[1])[1] ELSE active_visualization
    /\ workers' = [workers EXCEPT ![w] = start(w, command, payload, "broadcast")]
    /\ UNCHANGED <<visualization_presets, active_visualization_preset, poisoned, config_base_path,
                   common_settings, messages, message_tree, default_text_style,
                   message_stats, folder_playback_queue, triggered_message,
                   state_tx, command_tx, sse, emitted, display, lastCmd>>

VisualizationPayloads == {Some(JStr("techno")), Some(JStr("particles")), Some(JNum(1)), None}

NextConcViz ==
    \E w \in Workers :
        \/ \E c \in {"set-mode", "set-active-visualization"}, p \in VisualizationPayloads :
              conc_set_active_visualization(w, c, p)
        \/ conc_get_state(w)
        \/ conc_broadcast(w)
        \/ conc_snapshot(w)
        \/ conc_return(w)
        \/ conc_send(w)
        \/ conc_echo(w)

SpecConcViz == Init /\ [][NextConcViz]_vars

(***************************************************************************)
(* state_events: the handler of GET /api/events and the stream it returns. *)
(* A step is one subscribe, one lock step of get_state or one poll of the  *)
(* stream by the connection.                                               *)
(***************************************************************************)
\* rx_state = state_tx.subscribe()
sse_subscribe_state ==
    /\ sse.pc = "none"
    /\ sse' = [sse EXCEPT !.pc = "subscribing"]
    /\ UNCHANGED <<store, state_tx, command_tx, emitted, display, lastCmd, clock, workers>>

\* rx_command = command_tx.subscribe()
sse_subscribe_command ==
    /\ sse.pc = "subscribing"
    /\ sse' = [sse EXCEPT !.pc = "snapshot", !.at_subscribe = Some(get_state)]
    /\ UNCHANGED <<store, state_tx, command_tx, emitted, display, lastCmd, clock, workers>>

\* initial_state = get_state(): lock and clone the next fields
sse_get_state ==
    /\ sse.pc = "snapshot"
    /\ sse' = [sse EXCEPT
          !.snap = @ \o clone_fields(next_clone(Len(@))),
          !.pc = IF next_clone(Len(sse.snap)) = Len(snapshot_order)
                 THEN "initial" ELSE "snapshot",
          !.quiet = @ /\ get_state = sse.at_subscribe[1]]
    /\ UNCHANGED <<store, state_tx, command_tx, emitted, display, lastCmd, clock, workers>>

\* faulty variant of oldest: the receiver yields its newest unread value
newest(buf) == buf[Len(buf)]

\* BroadcastStream: the receiver yields its oldest unread value (a Lagged
\* error is dropped by filter_map and the stream is polled again)
oldest(buf) == Head(buf)

\* futures::stream::select: the stream whose turn it is is polled first,
\* the other one if that has nothing to yield
select_side(s) ==
    IF s.turn = "state"
    THEN IF s.rx_state # <<>> THEN "state" ELSE "command"
    ELSE IF s.rx_command # <<>> THEN "command" ELSE "state"

\* the event of the merged streams
feed_event(s) ==
    IF select_side(s) = "state"
    THEN [kind |-> "state", seq |-> oldest(s.rx_state).seq,
          data |-> oldest(s.rx_state).data]
    ELSE [kind |-> "command", seq |-> oldest(s.rx_command).seq,
          data |-> oldest(s.rx_command).data]

\* futures::stream::once: the event of the initial state (seq 0)
initial_event(s) ==
    [kind |-> "state", seq |-> 0, data |-> snapshot_of(s.snap)]

\* faulty variant of next_event: the merged streams without the chain
next_event_unchained(s) ==
    IF s.rx_state # <<>> \/ s.rx_command # <<>> THEN feed_event(s)
    ELSE initial_event(s)

\* initial_event.chain(select(state_stream, command_stream))
next_event(s) ==
    IF s.pc = "initial" THEN initial_event(s) ELSE feed_event(s)

toggle(turn) == IF turn = "state" THEN "command" ELSE "state"

\* the subscriber after event e was yielded to the connection
deliver(s, e) ==
    [s EXCEPT
       !.pc = IF e.seq = 0 THEN "live" ELSE @,
       !.turn = IF e.seq = 0 THEN @ ELSE toggle(@),
       !.rx_state = IF e.seq # 0 /\ e.kind = "state" THEN Tail(@) ELSE @,
       !.rx_command = IF e.seq # 0 /\ e.kind = "command" THEN Tail(@) ELSE @,
       !.recv_state = IF e.seq # 0 /\ e.kind = "state" THEN @ + 1 ELSE @,
       !.recv_command = IF e.seq # 0 /\ e.kind = "command" THEN @ + 1 ELSE @,
       !.got_state = IF e.seq # 0 /\ e.kind = "state" THEN e.seq ELSE @,
       !.got_command = IF e.seq # 0 /\ e.kind = "command" THEN e.seq ELSE @,
       !.delivered = @ + 1,
       !.first = IF s.delivered = 0 THEN Some(e) ELSE @,
       !.last = Some(e),
       !.last_state = IF e.kind = "state" THEN Some(e) ELSE @]

\* the connection polls the stream and an event is ready
sse_poll ==
    /\ \/ sse.pc = "initial"
       \/ sse.pc = "live" /\ (sse.rx_state # <<>> \/ sse.rx_command # <<>>)
    /\ sse' = deliver(sse, next_event(sse))
    /\ UNCHANGED <<store, state_tx, command_tx, emitted, display, lastCmd, clock, workers>>

\* the connection polls the stream (a keep-alive tick) and nothing is ready
sse_poll_pending ==
    /\ sse.pc = "live"
    /\ sse.rx_state = <<>>
    /\ sse.rx_command = <<>>
    /\ sse' = [sse EXCEPT !.turn = toggle(@)]
    /\ UNCHANGED <<store, state_tx, command_tx, emitted, display, lastCmd, clock, workers>>

(***************************************************************************)
(* SpecSse: a client connects to GET /api/events while trigger-message     *)
(* requests are in progress.                                               *)
(***************************************************************************)
\* the number of requests accepted in a run of SpecSse
MaxSseRequests == 2

NextSse ==
    \/ \E w \in Workers :
        \/ clock <= MaxSseRequests /\ conc_trigger_message(w, Some(MsgA))
        \/ conc_broadcast(w)
        \/ conc_snapshot(w)
        \/ conc_send(w)
        \/ conc_echo(w)
    \/ sse_subscribe_state
    \/ sse_subscribe_command
    \/ sse_get_state
    \/ sse_poll
    \/ sse_poll_pending

SpecSse == Init /\ [][NextSse]_vars

(***************************************************************************)
(* SpecSseLag: a client that reads slower than commands arrive.  The       *)
(* commands arrive when the client has been delivered its initial event,   *)
(* they are handled one after the other, the n-th sets the intensity to n. *)
(***************************************************************************)
\* the number of commands handled while the client is connected
MaxFeedEvents == 66

lag_payload(n) == Some(JObj([intensity |-> JNum(n), dim |-> JNum(0)]))

lag_command ==
    /\ sse.pc = "live"
    /\ sse.sent_state < MaxFeedEvents
    /\ handle_command_set_common_settings(lag_payload(sse.sent_state + 1))

NextSseLag ==
    \/ lag_command
    \/ sse_subscribe_state
    \/ sse_subscribe_command
    \/ sse_get_state
    \/ sse_poll
    \/ sse_poll_pending

SpecSseLag == Init /\ [][NextSseLag]_vars

(***************************************************************************)
(* SpecFeed: what a live client is sent by the commands of handle_command, *)
(* handled one after the other.                                            *)
(***************************************************************************)
\* the number of commands handled while the client is connected
MaxFeedCommands == 2

feed_open == sse.pc = "live" /\ sse.sent_command < MaxFeedCommands

NextFeed ==
    \/ /\ feed_open
       /\ \/ \E p \in CommonSettingsPayloads : handle_command_set_common_settings(p)
          \/ \E p \in TextStylePayloads : handle_command_set_default_text_style(p)
          \/ \E p \in TriggerPayloads : handle_command_trigger_message(p)
          \/ \E p \in MessagesPayloads : handle_command_set_messages(p)
          \/ \E p \in TreePayloads : handle_command_set_message_tree(p)
          \/ \E p \in AdvancePayloads : handle_command_clear_active_message(p)
          \/ \E p \in AdvancePayloads : handle_command_message_complete(p)
          \/ \E p \in PlayFolderPayloads : handle_command_play_folder(p)
          \/ handle_command_cancel_folder_playback(None)
          \/ handle_command_reset_message_stats(None)
          \/ \E d \in ConfigDocs : handle_command_load_configuration(Some(d))
          \/ \E c \in UnknownCommands : handle_command_unknown(c, None)
    \/ sse_subscribe_state
    \/ sse_subscribe_command
    \/ sse_get_state
    \/ sse_poll
    \/ sse_poll_pending

SpecFeed == Init /\ [][NextFeed]_vars

(***************************************************************************)
(* Properties.                                                             *)
(***************************************************************************)
\* the events a request emitted before the final echo of its own command
engine_emits == SubSeq(emitted, 1, Len(emitted) - 1)

\* some emitted event is a trigger-message for the message with this id
emits_trigger(events, id) ==
    \E i \in 1..Len(events) :
        /\ events[i].event = "remote-command"
        /\ get(events[i].payload, "command") = Some(JStr("trigger-message"))
        /\ get_str(events[i].payload.fields["payload"], "id") = Some(id)

emits_no_trigger(events) ==
    \A i \in 1..Len(events) :
        get(events[i].payload, "command") # Some(JStr("trigger-message"))

is_advance(cmd) ==
    cmd.entry = "remote" /\ cmd.command \in {"message-complete", "clear-active-message"}

\* the messageId of an advance payload, when it is a string
payload_message_id(cmd) ==
    IF IsSome(cmd.payload) THEN get_str(cmd.payload[1], "messageId") ELSE None

\* the guard of the claim: a queue is present and the id is the current one
is_current(queue, id) ==
    /\ IsSome(queue)
    /\ IsSome(id)
    /\ queue[1].current_index < Len(queue[1].message_ids)
    /\ queue[1].message_ids[queue[1].current_index + 1] = id[1]

\* C1: after every completed operation the stored flat list `messages` equals
\* the messages embedded in the message leaves of message_tree, in depth-first
\* encounter order.
C1_MessagesEqualFlattenedTree == messages = flatten_message_tree(message_tree)

\* C2: once a command has set the triggered message to M, a later command that
\* produces no trigger (set-common-settings, set-default-text-style,
\* reset-message-stats) leaves the stored triggered message equal to M and
\* broadcasts a snapshot that still carries M.
C2_TriggeredMessagePersists ==
    [][(/\ IsSome(triggered_message)
        /\ lastCmd'.command \in {"set-common-settings", "set-default-text-style",
                                  "reset-message-stats"})
       => (/\ triggered_message' = triggered_message
           /\ state_tx'[1].triggered_message = triggered_message)]_vars

\* the request handled by w installs a queue in this step
installs_queue(w) == workers[w].pc = "install" /\ workers'[w].pc = "first"

\* C3: whenever a queue is present its messageIds is non-empty and
\* 0 <= currentIndex <= length(messageIds); currentIndex changes only in steps
\* of +1 on the same queue and is 0 again only when play-folder installs a
\* queue.
C3_QueueShape ==
    /\ [](IsSome(folder_playback_queue)
          => (/\ Len(folder_playback_queue[1].message_ids) > 0
              /\ 0 <= folder_playback_queue[1].current_index
              /\ folder_playback_queue[1].current_index
                    <= Len(folder_playback_queue[1].message_ids)))
    /\ [][(IsSome(folder_playback_queue') /\ folder_playback_queue' # folder_playback_queue)
          => \/ /\ IsSome(folder_playback_queue)
                /\ folder_playback_queue'[1] =
                      [folder_playback_queue[1] EXCEPT !.current_index = @ + 1]
             \/ /\ \E w \in Workers : installs_queue(w)
                /\ folder_playback_queue'[1].current_index = 0]_vars

\* C3 witness: a queue whose last message was completed, with currentIndex at
\* length(messageIds), before the request that advanced it clears it.
C3_Witness ==
    /\ IsSome(folder_playback_queue)
    /\ folder_playback_queue[1].current_index = Len(folder_playback_queue[1].message_ids)
    /\ \E w \in Workers : workers[w].pc = "clear" /\ IsSome(workers[w].advanced)

\* the queue of a snapshot is absent or has a current message
queue_unfinished(snapshot) ==
    IsSome(snapshot.folder_playback_queue)
    => snapshot.folder_playback_queue[1].current_index
          < Len(snapshot.folder_playback_queue[1].message_ids)

\* C4: no snapshot that get_state returns, whether to GET /api/state or to a
\* broadcast, and also while the last message of a queue is being completed,
\* contains a queue with currentIndex = length(messageIds).
C4_NoFinishedQueueInSnapshot ==
    /\ \A w \in Workers :
          workers[w].pc \in {"send", "return"} => queue_unfinished(snapshot_of(workers[w].snap))
    /\ IsSome(state_tx) => queue_unfinished(state_tx[1])

\* C5: a message-complete or clear-active-message leaves the queue unchanged
\* and emits no trigger when no queue is present, when its payload has no
\* string messageId, or when its messageId differs from
\* messageIds[currentIndex] (a stale completion does not advance the queue).
C5_GuardedAdvance ==
    [][(is_advance(lastCmd')
        /\ ~is_current(folder_playback_queue, payload_message_id(lastCmd')))
       => (/\ folder_playback_queue' = folder_playback_queue
           /\ emits_no_trigger(engine_emits')
           /\ IsNone(triggered_message')
           /\ IsNone(state_tx'[1].triggered_message))]_vars

\* C5 witness: a completion for the message the queue has already left behind
\* was handled and the queue is still where it was.
C5_Witness ==
    /\ is_advance(lastCmd)
    /\ IsSome(folder_playback_queue)
    /\ folder_playback_queue = lastCmd.queue_before
    /\ folder_playback_queue[1].current_index >= 1
    /\ payload_message_id(lastCmd) =
          Some(folder_playback_queue[1].message_ids[folder_playback_queue[1].current_index])
    /\ ~is_current(folder_playback_queue, payload_message_id(lastCmd))

\* w handles a message-complete or clear-active-message with a string messageId
advance_id(w) ==
    IF workers[w].command \in {"message-complete", "clear-active-message"}
       /\ IsSome(workers[w].payload)
    THEN get_str(workers[w].payload[1], "messageId")
    ELSE None

\* two requests in progress at the same time that carry the same messageId
same_completion(w1, w2) ==
    w1 # w2 /\ IsSome(advance_id(w1)) /\ advance_id(w1) = advance_id(w2)

repeats_current(q) ==
    /\ q.current_index + 1 < Len(q.message_ids)
    /\ q.message_ids[q.current_index + 2] = q.message_ids[q.current_index + 1]

payload_folder_id(cmd) ==
    IF IsSome(cmd.payload) THEN get_str(cmd.payload[1], "folderId") ELSE None

\* C7: play-folder {folderId: F} leaves the queue as it was when F has no
\* descendant message ids; otherwise the queue becomes {F, ids, 0} and a
\* trigger for the message with id ids[0] is emitted, the broadcast snapshot
\* carrying that message as triggeredMessage.
C7_PlayFolder ==
    [][(lastCmd'.command = "play-folder" /\ IsSome(payload_folder_id(lastCmd')))
       => LET F == payload_folder_id(lastCmd')[1]
              ids == collect_messages_from_folder(F, message_tree)
          IN IF Len(ids) = 0
             THEN folder_playback_queue' = folder_playback_queue
             ELSE /\ folder_playback_queue' = Some(FolderPlaybackQueue(F, ids, 0))
                  /\ emits_trigger(engine_emits', ids[1])
                  /\ IsSome(state_tx'[1].triggered_message)
                  /\ state_tx'[1].triggered_message[1].id = ids[1]]_vars

\* C8: when a matching completion advances the queue to an index i that is
\* still within bounds, the command emits a trigger for messageIds[i] and the
\* snapshot it broadcasts has triggeredMessage with that id.
C8_AdvanceTriggersNext ==
    [][(/\ is_advance(lastCmd')
        /\ is_current(folder_playback_queue, payload_message_id(lastCmd'))
        /\ folder_playback_queue[1].current_index + 1
              < Len(folder_playback_queue[1].message_ids))
       => LET q == folder_playback_queue[1]
              next_id == q.message_ids[q.current_index + 2]
          IN /\ emits_trigger(engine_emits', next_id)
             /\ IsSome(state_tx'[1].triggered_message)
             /\ state_tx'[1].triggered_message[1].id = next_id]_vars

\* C9: cancel-folder-playback leaves the queue absent and emits clear-message
\* whether or not a queue was present; a message-complete right after it
\* changes nothing in the store and emits no trigger.
C9_Cancel ==
    [][/\ (lastCmd'.command = "cancel-folder-playback"
           => (/\ IsNone(folder_playback_queue')
               /\ \E i \in 1..Len(engine_emits') : engine_emits'[i] = clear_cmd))
       /\ (lastCmd.command = "cancel-folder-playback" /\ is_advance(lastCmd')
           => (/\ store' = store
               /\ IsNone(folder_playback_queue')
               /\ emits_no_trigger(engine_emits')))]_vars

\* C9 witness: a cancel that found a queue has been handled.
C9_Witness ==
    /\ lastCmd.command = "cancel-folder-playback"
    /\ IsSome(lastCmd.queue_before)
    /\ IsNone(folder_playback_queue)

\* the history of a stats entry as the sequence of its timestamps
stats_history(stats, id) ==
    IF IsSome(get(stats, id))
    THEN [i \in 1..Len(get(stats, id)[1].fields["history"].items) |->
            get(stats, id)[1].fields["history"].items[i].fields["timestamp"].num]
    ELSE <<>>

last_n(s, n) == SubSeq(s, Len(s) - n + 1, Len(s))

\* C10: after a successful trigger-message for an id, that id's history has at
\* most 50 records; the trigger's timestamp is appended last and, when the cap
\* is exceeded, the oldest records are evicted while the retained ones keep
\* their order.
C10_HistoryCapped ==
    [][(lastCmd'.command = "trigger-message" /\ IsSome(triggered_message'))
       => LET id == triggered_message'[1].id
              old == stats_history(message_stats, id)
              new == stats_history(message_stats', id)
              all == Append(old, clock)
          IN /\ Len(new) <= 50
             /\ new[Len(new)] = clock
             /\ new = last_n(all, IF Len(all) < 50 THEN Len(all) ELSE 50)]_vars

\* C10 witness: the id was triggered more than 50 times and its oldest records
\* are gone.
C10_Witness ==
    /\ lastCmd.command = "trigger-message"
    /\ Len(stats_history(message_stats, "a")) = 50
    /\ stats_history(message_stats, "a")[1] > 1
    /\ get(message_stats, "a")[1].fields["triggerCount"].num > 50

\* the number of history records of a stats entry (0 when it has no array)
history_len(entry) ==
    IF entry.k = "object" /\ "history" \in DOMAIN entry.fields
       /\ entry.fields["history"].k = "array"
    THEN Len(entry.fields["history"].items) ELSE 0

\* C11: in every reachable state, also after load-configuration and config
\* file loads that carry a messageStats document, every entry of the message
\* stats document has a history of at most 50 records.
C11_AllHistoriesCapped ==
    message_stats.k = "object"
    => \A id \in DOMAIN message_stats.fields :
          history_len(message_stats.fields[id]) <= 50

\* the triggerCount of an id in a stats document, 0 when it has no entry
trigger_count(stats, id) ==
    IF stats.k = "object" /\ id \in DOMAIN stats.fields
    THEN stats.fields[id].fields["triggerCount"].num ELSE 0

stats_ids(stats) == IF stats.k = "object" THEN DOMAIN stats.fields ELSE {}

\* worker w takes a request for this command in this step
takes(w, command) == workers[w].pc = "idle" /\ workers'[w].command = command

\* C12: under any interleaving, a trigger-message whose payload decoded
\* raises the triggerCount of its id by exactly one and leaves the other
\* entries alone, the first trigger of an id creates the entry with
\* triggerCount 1 and one history record, a trigger-message whose payload did
\* not decode changes no count, and only trigger-message and
\* reset-message-stats change the stats: with no reset in between,
\* triggerCount equals the number of decoded triggers of the id.
C12_NoLostTrigger ==
    [][/\ \A w \in Workers :
             takes(w, "trigger-message")
             => IF IsSome(workers'[w].triggered)
                THEN LET id == workers'[w].triggered[1].id
                     IN /\ trigger_count(message_stats', id)
                              = trigger_count(message_stats, id) + 1
                        /\ id \notin stats_ids(message_stats)
                           => /\ trigger_count(message_stats', id) = 1
                              /\ history_len(message_stats'.fields[id]) = 1
                        /\ \A other \in stats_ids(message_stats') \ {id} :
                              /\ other \in stats_ids(message_stats)
                              /\ message_stats'.fields[other] = message_stats.fields[other]
                ELSE message_stats' = message_stats
       /\ message_stats' # message_stats
          => \E w \in Workers : \/ takes(w, "trigger-message")
                                \/ takes(w, "reset-message-stats")]_vars

\* C12 witness: two trigger-message requests for the same id are in progress
\* and the id's triggerCount is 2.
C12_Witness ==
    \E w1, w2 \in Workers :
        /\ w1 # w2
        /\ workers[w1].command = "trigger-message"
        /\ workers[w2].command = "trigger-message"
        /\ IsSome(workers[w1].triggered)
        /\ workers[w1].triggered = workers[w2].triggered
        /\ trigger_count(message_stats, workers[w1].triggered[1].id) = 2

\* C13: a command whose name is not in the command table, a known name in
\* another letter case included, leaves every field of the store as it was,
\* the triggered message and the playback queue included.
C13_UnknownIsNoOp ==
    [][(lastCmd'.entry = "remote" /\ lastCmd'.command \in UnknownCommands)
       => store' = store]_vars

quiescent == \A w \in Workers : workers[w].pc = "idle"

\* C15: a subscriber observes no gap.  Every snapshot sent on the state feed
\* once get_state of state_events has begun is appended to the subscriber's
\* receiver; every snapshot sent to the receiver is unread in it, was
\* delivered after the initial event, or was dropped by the overflow policy;
\* and when none was sent, the initial event is the store once no request
\* is in progress.
C15_NoGap ==
    /\ [](/\ sse.sent_state = sse.recv_state + Len(sse.rx_state) + sse.dropped_state
          /\ sse.recv_state > 0 => IsSome(sse.first) /\ sse.first[1].seq = 0
          /\ (sse.pc = "live" /\ sse.sent_state = 0 /\ quiescent)
                => sse.first[1].data = get_state)
    /\ [][(sse.pc \in {"snapshot", "initial", "live"} /\ state_tx' # state_tx)
            => /\ sse'.rx_state # <<>>
               /\ sse'.rx_state[Len(sse'.rx_state)].data = state_tx'[1]
               /\ sse'.sent_state = sse.sent_state + 1]_vars

\* a snapshot was sent while get_state of state_events was cloning the
\* fields, and it was delivered after the initial event which differs from it
C15_Witness ==
    /\ sse.pc = "live"
    /\ ~sse.quiet
    /\ sse.recv_state > 0
    /\ sse.last[1].kind = "state"
    /\ sse.last[1].data # sse.first[1].data
    /\ sse.last[1].data.message_stats # sse.first[1].data.message_stats

\* the unread values of a receiver are in the order of sending and end
\* with the value sent last
in_sending_order(buf, sent) ==
    /\ \A i \in 1..Len(buf) : \A j \in 1..Len(buf) : i < j => buf[i].seq < buf[j].seq
    /\ buf # <<>> => buf[Len(buf)].seq = sent

\* the event e that a poll delivered was unread in buf and was sent after
\* the event of number got
delivered_in_order(e, buf, got) ==
    /\ e.seq > got
    /\ \E i \in 1..Len(buf) : buf[i] = [seq |-> e.seq, data |-> e.data]

\* C16: for each feed, the events delivered after the initial event are
\* events sent on that feed, in the order of sending: each delivered event
\* was sent later than the one delivered before it on the same feed.
C16_OrderPreserved ==
    /\ [](/\ in_sending_order(sse.rx_state, sse.sent_state)
          /\ in_sending_order(sse.rx_command, sse.sent_command))
    /\ [][(sse'.delivered = sse.delivered + 1 /\ sse'.last[1].seq # 0)
            => IF sse'.last[1].kind = "state"
               THEN /\ delivered_in_order(sse'.last[1], sse.rx_state, sse.got_state)
                    /\ sse'.got_state = sse'.last[1].seq
                    /\ sse'.got_command = sse.got_command
               ELSE /\ delivered_in_order(sse'.last[1], sse.rx_command, sse.got_command)
                    /\ sse'.got_command = sse'.last[1].seq
                    /\ sse'.got_state = sse.got_state]_vars

\* two events of the state feed and one of the command feed were delivered
\* after the initial event, none was dropped
C16_Witness ==
    /\ sse.pc = "live"
    /\ sse.got_state = 2
    /\ sse.got_command = 1
    /\ sse.rx_state = <<>>
    /\ sse.dropped_state = 0

\* C17: publishing never waits for the subscriber.  A receiver never holds
\* more than 64 unread values; a command is handled also when the receivers
\* are full, its send drops the oldest unread value and leaves the
\* subscriber subscribed; and every event of the state feed delivered
\* afterwards is a complete snapshot, the one sent with that number, later
\* in the order of sending than the one delivered before it.
C17_PublishNeverWaits ==
    /\ [](/\ Len(sse.rx_state) <= ChannelCapacity
          /\ Len(sse.rx_command) <= ChannelCapacity
          /\ (Len(sse.rx_state) = ChannelCapacity /\ sse.sent_state < MaxFeedEvents)
                => ENABLED lag_command)
    /\ [][(Len(sse.rx_state) = ChannelCapacity /\ sse'.sent_state = sse.sent_state + 1)
            => /\ sse'.pc = sse.pc
               /\ sse'.rx_state = Append(Tail(sse.rx_state),
                                         [seq |-> sse'.sent_state, data |-> get_state'])
               /\ sse'.dropped_state = sse.dropped_state + 1]_vars
    /\ [][(sse'.recv_state = sse.recv_state + 1)
            => /\ sse'.last[1].kind = "state"
               /\ sse'.last[1].seq > sse.got_state
               /\ DOMAIN sse'.last[1].data = DOMAIN get_state
               /\ sse'.last[1].data.common_settings.intensity = sse'.last[1].seq
               /\ sse'.last[1].data = [get_state EXCEPT !.common_settings.intensity =
                                                            sse'.last[1].seq]]_vars

\* unread snapshots were dropped and the subscriber, still subscribed, was
\* then delivered a later snapshot of the state feed
C17_Witness ==
    /\ sse.pc = "live"
    /\ sse.dropped_state > 0
    /\ sse.last[1].kind = "state"
    /\ sse.last[1].seq > sse.recv_state
    /\ sse.last[1].seq > ChannelCapacity

\* C18: once no request is in progress, the snapshot sent last on the state
\* feed is the store as get_state returns it.
C18_LatestBroadcastIsTruth ==
    (quiescent /\ IsSome(state_tx)) => state_tx[1] = get_state

\* a step of a live client's connection: a poll of the stream
is_poll == sse'.delivered # sse.delivered \/ sse'.turn # sse.turn

\* C19: every command handled by handle_command sends exactly one snapshot
\* on the state feed, the store as the command left it, and exactly one
\* echo of its {command, payload} envelope on the command feed; nothing
\* else sends on a feed.
C19_OneSnapshotOneEcho ==
    [][sse.pc = "live" =>
         IF is_poll
         THEN /\ sse'.sent_state = sse.sent_state
              /\ sse'.sent_command = sse.sent_command
         ELSE /\ sse'.sent_state = sse.sent_state + 1
              /\ sse'.rx_state =
                    Append(sse.rx_state, [seq |-> sse'.sent_state, data |-> get_state'])
              /\ sse'.sent_command = sse.sent_command + 1
              /\ sse'.rx_command =
                    Append(sse.rx_command,
                           [seq |-> sse'.sent_command,
                            data |-> RemoteCommand(lastCmd'.command, lastCmd'.payload)])
              /\ lastCmd'.entry = "remote"]_vars

\* play-folder was handled as the second command of a live client: its
\* snapshot, with the queue it installed, and its echo are the last values
\* sent to the client
C19_Witness ==
    /\ sse.pc = "live"
    /\ sse.sent_state = 2
    /\ sse.sent_command = 2
    /\ sse.rx_command # <<>>
    /\ sse.rx_command[Len(sse.rx_command)].data.command = "play-folder"
    /\ sse.rx_state # <<>>
    /\ IsSome(sse.rx_state[Len(sse.rx_state)].data.folder_playback_queue)

\* C20: a snapshot that GET /api/state returns while set-message-tree
\* requests are in progress shows the tree and the message list either both
\* as before a command or both as after it: the list is the flattened tree.
C20_SnapshotNotPartial ==
    \A w \in Workers :
        workers[w].pc = "return" =>
            snapshot_of(workers[w].snap).messages =
                flatten_message_tree(snapshot_of(workers[w].snap).message_tree)

\* C22: every snapshot get_state produces (the one a GET /api/state request
\* is about to return, the one a command is about to send and the one sent
\* last on the state feed) carries a legacy mode equal to its own
\* activeVisualization, also when set-mode and set-active-visualization
\* write the active visualization while the snapshot is being assembled.
snapshot_done(w) == workers[w].pc \in {"return", "send"}

C22_ModeIsActiveVisualization ==
    /\ \A w \in Workers :
          snapshot_done(w) =>
             snapshot_of(workers[w].snap).mode
                = snapshot_of(workers[w].snap).active_visualization
    /\ IsSome(state_tx) => state_tx[1].mode = state_tx[1].active_visualization
    /\ get_state.mode = get_state.active_visualization

\* a snapshot is ready whose active visualization was replaced after it
\* was cloned
C22_Witness ==
    \E w \in Workers :
        /\ snapshot_done(w)
        /\ snapshot_of(workers[w].snap).mode = "fireplace"
        /\ active_visualization = "techno"

\* C23: set-active-visualization-preset with a string id P sets the active
\* preset to P and, when the preset list holds a preset with id P, makes the
\* visualization of the first such preset the active visualization; a
\* request whose payload is null clears the active preset and leaves the
\* active visualization unchanged.
first_match(presets, P) ==
    presets[CHOOSE i \in 1..Len(presets) :
               presets[i].id = P /\ \A j \in 1..(i - 1) : presets[j].id # P]

has_preset(presets, P) == \E i \in 1..Len(presets) : presets[i].id = P

is_set_active_preset(c) ==
    c.entry = "remote" /\ c.command = "set-active-visualization-preset"

C23_SetActivePreset ==
    [][is_set_active_preset(lastCmd') =>
         /\ \A P \in PresetIds :
               lastCmd'.payload = decode_payload(Some(JStr(P))) =>
                  /\ active_visualization_preset' = Some(P)
                  /\ active_visualization' =
                        IF has_preset(visualization_presets, P)
                        THEN first_match(visualization_presets, P).visualization_id
                        ELSE active_visualization
         /\ lastCmd'.payload = decode_payload(Some(JNull)) =>
               /\ active_visualization_preset' = None
               /\ active_visualization' = active_visualization]_vars

\* C24: for every preset id P, the command load-configuration with the
\* payload {activeVisualizationPreset: P} leaves the active preset and the
\* active visualization as set-active-visualization-preset with payload P
\* would leave them from the same starting state.
is_load_preset(c, P) ==
    /\ c.entry = "remote"
    /\ c.command = "load-configuration"
    /\ c.payload = Some(JObj([activeVisualizationPreset |-> JStr(P)]))

C24_LoadPresetAsCommand ==
    [][\A P \in PresetIds :
         is_load_preset(lastCmd', P) =>
            /\ active_visualization_preset' =
                  set_active_visualization_preset(config_fields, Some(JStr(P)))
                     .active_visualization_preset
            /\ active_visualization' =
                  set_active_visualization_preset(config_fields, Some(JStr(P)))
                     .active_visualization]_vars

\* the last request loaded a configuration document that is a JSON object
\* (by the remote command, the window event or from a file)
is_load(c) ==
    /\ c.command \in {"load-configuration", "LOAD_CONFIGURATION", "load_config_from_file"}
    /\ IsSome(c.payload)
    /\ c.payload[1].k = "object"

doc(c) == c.payload[1].fields

has_key(c, key) == key \in DOMAIN doc(c)

C26_TreePrecedence ==
    [][is_load(lastCmd') =>
         /\ has_key(lastCmd', "messageTree") =>
               /\ message_tree' = doc(lastCmd').messageTree
               /\ messages' = flatten_message_tree(doc(lastCmd').messageTree)
         /\ ~has_key(lastCmd', "messageTree") =>
               /\ message_tree' = build_flat_message_tree(messages')
               /\ messages' =
                     IF has_key(lastCmd', "messages")
                        /\ IsSome(from_value_Vec_MessageConfig(doc(lastCmd').messages))
                     THEN from_value_Vec_MessageConfig(doc(lastCmd').messages)[1]
                     ELSE messages
         /\ (has_key(lastCmd', "messageTree")
              /\ doc(lastCmd').messageTree.k = "array"
              /\ Len(doc(lastCmd').messageTree.items) = 1
              /\ get_str(doc(lastCmd').messageTree.items[1], "id") = Some("folder-1")) =>
               /\ Len(messages') = 3
               /\ Len(message_tree'.items) = 1]_vars

\* a file with three messages wrapped in one folder was loaded
C26_Witness ==
    /\ is_load(lastCmd)
    /\ lastCmd.entry = "file"
    /\ has_key(lastCmd, "messages")
    /\ has_key(lastCmd, "messageTree")
    /\ Len(messages) = 3
    /\ Len(message_tree.items) = 1
    /\ get_str(message_tree.items[1], "type") = Some("folder")

\* C27: a configuration load leaves unchanged every field whose key is
\* absent from the document (messages and the message tree when the
\* document has neither the messages nor the messageTree key, since each of
\* the two keys also determines the other field); a document with only
\* defaultTextStyle leaves messages and the message tree, folders included,
\* as they were.
C27_AbsentKeysUnchanged ==
    [][is_load(lastCmd') =>
         /\ ~has_key(lastCmd', "commonSettings") => common_settings' = common_settings
         /\ ~has_key(lastCmd', "visualizationPresets") =>
               visualization_presets' = visualization_presets
         /\ ~has_key(lastCmd', "activeVisualization") =>
               active_visualization' = active_visualization
         /\ ~has_key(lastCmd', "activeVisualizationPreset") =>
               active_visualization_preset' = active_visualization_preset
         /\ ~has_key(lastCmd', "defaultTextStyle") =>
               default_text_style' = default_text_style
         /\ ~has_key(lastCmd', "messageStats") => message_stats' = message_stats
         /\ (~has_key(lastCmd', "messages") /\ ~has_key(lastCmd', "messageTree")) =>
               /\ messages' = messages
               /\ message_tree' = message_tree]_vars

\* the fields of S that a configuration document can replace
loaded_fields(S) ==
    [active_visualization |-> S.active_visualization,
     visualization_presets |-> S.visualization_presets,
     active_visualization_preset |-> S.active_visualization_preset,
     common_settings |-> S.common_settings,
     messages |-> S.messages,
     message_tree |-> S.message_tree,
     default_text_style |-> S.default_text_style,
     message_stats |-> S.message_stats]

\* C28: for every JSON object document D and every starting state, the
\* remote command load-configuration with payload D, the window event
\* LOAD_CONFIGURATION with payload D and load_config_from_file on a file
\* containing D compute the same fields, and whichever of the three ran
\* leaves the snapshot fields at exactly that result: the loaded fields as
\* computed, no triggered message, the playback queue untouched.
C28_FileAsCommand ==
    [][is_load(lastCmd') =>
         /\ loaded_fields(config_fields)' =
               loaded_fields(server_load_configuration(config_fields, lastCmd'.payload[1]))
         /\ loaded_fields(config_fields)' =
               loaded_fields(app_load_configuration(config_fields, lastCmd'.payload[1]))
         /\ loaded_fields(config_fields)' =
               loaded_fields(state_load_config(config_fields, lastCmd'.payload[1]))
         /\ triggered_message' = None
         /\ folder_playback_queue' = folder_playback_queue]_vars

\* the window event loaded a document whose message list disagrees with
\* its tree, and the messages are those of the tree
C28_Witness ==
    /\ is_load(lastCmd)
    /\ lastCmd.entry = "window"
    /\ has_key(lastCmd, "messages")
    /\ has_key(lastCmd, "messageTree")
    /\ doc(lastCmd).messageTree = Tree2
    /\ messages = flatten_message_tree_value(Tree2)
    /\ Len(messages) = 4

\* the last request was load_config_from_file on a path that does not
\* exist or on a file whose content is not a JSON document
is_failed_file_load(c) == c.entry = "file" /\ IsNone(c.payload)

\* C29: load_config_from_file on a missing file or on a file that is not
\* valid JSON returns an error that names the failure, leaves every field
\* of the snapshot as it was and sends nothing on the state feed.
C29_FailedLoadChangesNothing ==
    [][is_failed_file_load(lastCmd') =>
         /\ lastCmd'.result \in {"Err: Config file does not exist",
                                  "Err: Failed to read config file",
                                  "Err: Failed to parse config JSON"}
         /\ get_state' = get_state
         /\ state_tx' = state_tx
         /\ sse' = sse]_vars

\* at startup a file that is not JSON was given: the error is returned, the
\* store holds the built-in defaults and no snapshot was published (only
\* the base path, which is no snapshot field, was set)
C29_Witness ==
    /\ is_failed_file_load(lastCmd)
    /\ lastCmd.result = "Err: Failed to parse config JSON"
    /\ config_base_path = Some("/etc/vibecast")
    /\ messages = default_messages
    /\ message_tree = default_message_tree
    /\ state_tx = None

\* C30: when the lock of one field is poisoned (message_stats or
\* folder_playback_queue), get_state still returns a snapshot in which that
\* field is its fallback default ({} and no queue) and every other field is
\* the value in the store; a command that would write the poisoned field
\* (trigger-message, reset-message-stats, load-configuration with a
\* messageStats key; play-folder, cancel-folder-playback, message-complete)
\* leaves it as it is, still applies its other writes (the triggered
\* message, the sibling keys of the document), publishes the snapshot and
\* answers status ok.
stats_poisoned == "message_stats" \in poisoned

queue_poisoned == "folder_playback_queue" \in poisoned

other_fields_actual ==
    /\ get_state.active_visualization = active_visualization
    /\ get_state.visualization_presets = visualization_presets
    /\ get_state.active_visualization_preset = active_visualization_preset
    /\ get_state.common_settings = common_settings
    /\ get_state.messages = messages
    /\ get_state.message_tree = message_tree
    /\ get_state.default_text_style = default_text_style
    /\ get_state.triggered_message = triggered_message
    /\ ~stats_poisoned => get_state.message_stats = message_stats
    /\ ~queue_poisoned => get_state.folder_playback_queue = folder_playback_queue

\* the step is a remote command that ran to its response (a request that
\* panics poisons a lock and completes nothing)
completed_remote == lastCmd'.entry = "remote" /\ poisoned' = poisoned

C30_PoisonedLockTolerated ==
    /\ [](/\ stats_poisoned => get_state.message_stats = JObj(EmptyMap)
          /\ queue_poisoned => get_state.folder_playback_queue = None
          /\ other_fields_actual)
    /\ [][(stats_poisoned /\ completed_remote) =>
            /\ message_stats' = message_stats
            /\ lastCmd'.result = "status ok"
            /\ state_tx' = Some(get_state')
            /\ lastCmd'.command = "trigger-message" =>
                  triggered_message' = decode_trigger_payload(lastCmd'.payload[1])
            /\ (lastCmd'.command = "load-configuration"
                 /\ has_key(lastCmd', "defaultTextStyle")) =>
                  default_text_style' = doc(lastCmd').defaultTextStyle.str
            /\ (lastCmd'.command = "load-configuration"
                 /\ has_key(lastCmd', "commonSettings")) =>
                  common_settings' =
                     from_value_CommonSettings(doc(lastCmd').commonSettings)[1]]_vars
    /\ [][(queue_poisoned /\ completed_remote) =>
            /\ folder_playback_queue' = folder_playback_queue
            /\ lastCmd'.result = "status ok"
            /\ state_tx' = Some(get_state')
            /\ (lastCmd'.command = "play-folder"
                 /\ message_tree = default_message_tree) =>
                  triggered_message' = find_by_id(messages, "msg-1")
            /\ lastCmd'.command = "cancel-folder-playback" =>
                  emitted'[1] = clear_cmd]_vars

\* statistics were recorded and a queue installed, both locks were
\* poisoned, and a configuration with other statistics and a text style
\* was loaded: the style was applied, the statistics were not, and the
\* snapshot shows no statistics and no queue
C30_Witness ==
    /\ stats_poisoned
    /\ lastCmd.command = "load-configuration"
    /\ has_key(lastCmd, "messageStats")
    /\ doc(lastCmd).messageStats = StatsDoc
    /\ default_text_style = "bounce"
    /\ message_stats # StatsDoc
    /\ message_stats # JObj(EmptyMap)
    /\ IsSome(state_tx)
    /\ state_tx[1].message_stats = JObj(EmptyMap)
    /\ state_tx[1].default_text_style = "bounce"
    /\ queue_poisoned
    /\ IsSome(folder_playback_queue)
    /\ state_tx[1].folder_playback_queue = None

\* ---------------------------------------------------------------------------
\* Lock acquisition: every field of AppStateSync is a std::sync::Mutex. A
\* request is the sequence of lock operations its code performs: Use(l) takes
\* the lock and drops the guard before the next operation (an `if let Ok(..)`
\* block or a `.lock().map(..)` with nothing locked inside), Lock(l) takes it
\* and keeps the guard while the following operations run, Unlock(l) is the
\* end of the block that holds the guard. Mutex::lock blocks while another
\* thread holds the lock, and also when the calling thread holds it itself.

Use(l) == [op |-> "use", lock |-> l]

Lock(l) == [op |-> "lock", lock |-> l]

Unlock(l) == [op |-> "unlock", lock |-> l]

\* get_state: one lock at a time, in the order of the declarations
get_state_locks ==
    << Use("active_visualization"), Use("common_settings"),
       Use("visualization_presets"), Use("active_visualization_preset"),
       Use("messages"), Use("message_tree"), Use("default_text_style"),
       Use("message_stats"), Use("folder_playback_queue"),
       Use("triggered_message") >>

\* broadcast: store the triggered message, then take the snapshot
broadcast_locks == << Use("triggered_message") >> \o get_state_locks

\* the tree is rebuilt from the list while the list's guard is held
rebuild_tree_locks ==
    << Lock("messages"), Lock("message_tree"),
       Unlock("message_tree"), Unlock("messages") >>

\* set-messages: replace the list, then rebuild the tree under the list's guard
set_messages_locks == << Use("messages") >> \o rebuild_tree_locks

\* faulty variant of set_message_tree_locks: the list is replaced while the
\* tree's guard is still held
set_message_tree_locks_nested ==
    << Lock("message_tree"), Lock("messages"),
       Unlock("messages"), Unlock("message_tree") >>

\* set-message-tree: replace the tree, drop its guard, then replace the list
set_message_tree_locks == << Use("message_tree"), Use("messages") >>

\* set-active-visualization-preset (payload a string): store the id, then look
\* the preset up and set the visualization while the list's guard is held
set_active_visualization_preset_locks ==
    << Use("active_visualization_preset"),
       Lock("visualization_presets"), Lock("active_visualization"),
       Unlock("active_visualization"), Unlock("visualization_presets") >>

\* message-complete and clear-active-message: the queue's guard is held while
\* the next message is looked up in the list; when the folder is finished the
\* queue is locked again, after the first guard is dropped, to clear it
advance_locks(should_clear_queue) ==
    << Lock("folder_playback_queue"), Lock("messages"),
       Unlock("messages"), Unlock("folder_playback_queue") >>
    \o (IF should_clear_queue THEN << Use("folder_playback_queue") >> ELSE <<>>)

\* play-folder: tree, queue and list, one after the other
play_folder_locks ==
    << Use("message_tree"), Use("folder_playback_queue"), Use("messages") >>

\* trigger-message: the statistics
trigger_message_locks == << Use("message_stats") >>

\* load-configuration, LOAD_CONFIGURATION and load_config_from_file: the keys
\* in the order of the code; without a messageTree key the tree is rebuilt
\* under the list's guard
load_configuration_locks(has_tree) ==
    << Use("active_visualization"), Use("common_settings"), Use("messages") >>
    \o (IF has_tree THEN set_message_tree_locks ELSE rebuild_tree_locks)
    \o << Use("default_text_style"), Use("visualization_presets"),
          Use("active_visualization_preset"), Use("message_stats") >>

\* the requests: a command's, a window event's and a file load's lock
\* operations are followed by the broadcast's
LockRequests ==
    { [command |-> "get-state", locks |-> get_state_locks],
      [command |-> "set-messages", locks |-> set_messages_locks \o broadcast_locks],
      [command |-> "set-message-tree",
       locks |-> set_message_tree_locks \o broadcast_locks],
      [command |-> "set-active-visualization-preset",
       locks |-> set_active_visualization_preset_locks \o broadcast_locks],
      [command |-> "play-folder", locks |-> play_folder_locks \o broadcast_locks],
      [command |-> "trigger-message",
       locks |-> trigger_message_locks \o broadcast_locks] }
    \cup { [command |-> "message-complete",
            locks |-> advance_locks(c) \o broadcast_locks] : c \in BOOLEAN }
    \cup { [command |-> c, locks |-> load_configuration_locks(t) \o broadcast_locks] :
           c \in {"load-configuration", "LOAD_CONFIGURATION",
                  "load_config_from_file"},
           t \in BOOLEAN }
    \cup { [command |-> "SET_ACTIVE_VISUALIZATION_PRESET",
            locks |-> set_active_visualization_preset_locks \o broadcast_locks] }

\* the number of requests accepted in a run of SpecLocks
MaxLockRequests == 2

\* the locks whose guard worker w holds
held(w) ==
    LET done == SubSeq(workers[w].locks, 1, workers[w].at)
    IN  { done[i].lock : i \in
            { i \in 1..Len(done) :
                /\ done[i].op = "lock"
                /\ \A j \in (i + 1)..Len(done) :
                     done[j] # Unlock(done[i].lock) } }

\* Mutex::lock returns at once only when no thread holds the lock
is_free(l) == \A w \in Workers : l \notin held(w)

\* the operation worker w performs next
next_op(w) == workers[w].locks[workers[w].at + 1]

\* worker w is in a request and its next lock operation does not block
can_step(w) ==
    /\ workers[w].pc = "locks"
    /\ workers[w].at < Len(workers[w].locks)
    /\ next_op(w).op \in {"use", "lock"} => is_free(next_op(w).lock)

\* a request arrives on the first idle worker
lock_request(w, request) ==
    /\ workers[w].pc = "idle"
    /\ \A v \in Workers : v < w => workers[v].pc # "idle"
    /\ clock <= MaxLockRequests
    /\ clock' = clock + 1
    /\ workers' = [workers EXCEPT ![w] =
           [idle_worker EXCEPT !.pc = "locks", !.command = request.command,
                               !.locks = request.locks]]
    /\ UNCHANGED <<store, state_tx, command_tx, emitted, display, lastCmd, sse>>

\* worker w performs its next lock operation
lock_step(w) ==
    /\ can_step(w)
    /\ workers' = [workers EXCEPT ![w].at = @ + 1]
    /\ UNCHANGED <<store, state_tx, command_tx, emitted, display, lastCmd,
                   clock, sse>>

\* the request has performed all its lock operations and completes
lock_return(w) ==
    /\ workers[w].pc = "locks"
    /\ workers[w].at = Len(workers[w].locks)
    /\ workers' = [workers EXCEPT ![w] = idle_worker]
    /\ UNCHANGED <<store, state_tx, command_tx, emitted, display, lastCmd,
                   clock, sse>>

NextLocks ==
    \E w \in Workers :
        \/ \E request \in LockRequests : lock_request(w, request)
        \/ lock_step(w)
        \/ lock_return(w)

SpecLocks == Init /\ [][NextLocks]_vars

\* the scheduler runs every thread that is not blocked: a lock operation that
\* stays possible is eventually performed, and a finished request returns
SpecLocksFair ==
    /\ SpecLocks
    /\ \A w \in Workers : WF_vars(lock_step(w)) /\ WF_vars(lock_return(w))

\* ---------------------------------------------------------------------------
\* C21: lock acquisition

\* worker w is handling a request
in_request(w) == workers[w].pc = "locks"

\* guard of a is held while b is locked, in some state
nests(a, b) ==
    \E w \in Workers :
        /\ in_request(w)
        /\ workers[w].at < Len(workers[w].locks)
        /\ a \in held(w)
        /\ next_op(w) = Lock(b)

\* C21: under any interleaving of commands, window events, config loads and
\* snapshots no state is a deadlock (whenever a request is in progress, some
\* request can perform its next lock operation or return), a guard is held
\* only in the orders list-then-tree, queue-then-list and
\* presets-then-visualization, never in the reverse of one of them, and under
\* fair scheduling every request, get_state included, eventually completes.
C21_NoDeadlock ==
    /\ [](\A w \in Workers :
            in_request(w) =>
                \E v \in Workers :
                    can_step(v) \/ (in_request(v) /\ workers[v].at = Len(workers[v].locks)))
    /\ [](\A a, b \in {"messages", "message_tree", "folder_playback_queue",
                       "visualization_presets", "active_visualization"} :
            nests(a, b) =>
                <<a, b>> \in { <<"messages", "message_tree">>,
                               <<"folder_playback_queue", "messages">>,
                               <<"visualization_presets", "active_visualization">> })
    /\ \A w \in Workers : in_request(w) ~> ~in_request(w)

\* one request holds the queue's guard and waits for the list's, which the
\* other request holds while it locks the tree
C21_Witness ==
    \E w, v \in Workers :
        /\ held(w) = {"folder_playback_queue"}
        /\ next_op(w) = Lock("messages")
        /\ ~can_step(w)
        /\ held(v) = {"messages"}
        /\ next_op(v) = Lock("message_tree")
        /\ can_step(v)

(***************************************************************************)
(* SpecSetMessages: set-messages and SET_MESSAGES with payloads of every   *)
(* shape, among set-message-tree and SET_MESSAGE_TREE.                     *)
(***************************************************************************)
\* arrays of messages, of strings, of both, with an object that does not
\* decode, and payloads that are no array
SetMessagesPayloads ==
    { Some(JArr(<<MsgA, MsgB>>)), Some(JArr(<<MsgB>>)), Some(JArr(<<>>)),
      Some(JArr(<<JStr("hello"), JStr("world")>>)),
      Some(JArr(<<MsgA, MsgC>>)), Some(JArr(<<MsgC>>)),
      Some(JArr(<<JStr("hello"), MsgC>>)), Some(JArr(<<MsgA, JStr("hello")>>)),
      Some(JArr(<<JNum(7)>>)),
      Some(JNum(0)), Some(JStr("hello")), Some(MsgA), Some(JNull), None }

NextSetMessages ==
    \/ \E p \in SetMessagesPayloads : handle_command_set_messages(p)
    \/ \E p \in TreePayloads : handle_command_set_message_tree(p)
    \/ \E p \in SetMessagesPayloads \ {None} : emit_state_change_SET_MESSAGES(p[1])
    \/ \E pv \in {Tree1, Tree2} : emit_state_change_SET_MESSAGE_TREE(pv)

SpecSetMessages == Init /\ [][NextSetMessages]_vars

\* ---------------------------------------------------------------------------
\* C31: set-messages with a payload of no expected shape

\* the payload is an array whose elements are all message objects that decode
is_message_array(p) ==
    /\ p.k = "array"
    /\ \A i \in 1..Len(p.items) : IsSome(from_value_MessageConfig(p.items[i]))

\* the payload is an array whose elements are all strings
is_string_array(p) ==
    /\ p.k = "array"
    /\ \A i \in 1..Len(p.items) : p.items[i].k = "string"

\* C31: a set-messages command whose payload is neither an array of valid
\* message objects nor an array of strings (for example an array in which one
\* object has no textStyle) leaves messages and message_tree as they were.
C31_MalformedSetMessagesNoOp ==
    [][(/\ lastCmd'.entry = "remote"
        /\ lastCmd'.command = "set-messages"
        /\ IsSome(lastCmd'.payload)
        /\ ~is_message_array(lastCmd'.payload[1])
        /\ ~is_string_array(lastCmd'.payload[1]))
       => (messages' = messages /\ message_tree' = message_tree)]_vars

(***************************************************************************)
(* SpecFlatten: the commands that flatten a tree into the list             *)
(* (set-message-tree) and build the flat tree from the list (set-messages, *)
(* load-configuration without a messageTree key), and SET_MESSAGES, which  *)
(* replaces the list alone, over trees and lists of many shapes.           *)
(***************************************************************************)
\* a message with every optional field set
MsgRich ==
    JObj([id |-> JStr("r"), text |-> JStr("Rich"), textStyle |-> JStr("bounce"),
          textFile |-> JStr("rich.txt"), textStylePreset |-> JStr("bounce-big"),
          styleOverrides |-> JObj([color |-> JStr("red"), size |-> JNull]),
          repeatCount |-> JNum(3), speed |-> JNum(2),
          splitEnabled |-> JBool(TRUE), splitSeparator |-> JStr(",")])

\* a message whose optional fields are written as null, and an unknown key
MsgNulls ==
    JObj([id |-> JStr("n"), text |-> JStr(""), textStyle |-> JStr("typewriter"),
          textFile |-> JNull, styleOverrides |-> JNull, repeatCount |-> JNull,
          speed |-> JNull, splitEnabled |-> JNull, colour |-> JStr("blue")])

\* three levels of folders, a message repeated in two folders
Tree3 ==
    JArr(<< MessageNode(MsgRich),
            FolderNode("F", << FolderNode("G", << FolderNode("H", << MessageNode(MsgNulls),
                                                                   MessageNode(MsgA) >>),
                                                 MessageNode(MsgRich) >>),
                               MessageNode(MsgB) >>),
            MessageNode(MsgA) >>)

\* a message node without a message, one whose id differs from its message's,
\* a folder without children, a folder whose children are one node
Tree4 ==
    JArr(<< JObj([type |-> JStr("message"), id |-> JStr("x")]),
            JObj([type |-> JStr("message"), id |-> JStr("x"), message |-> MsgB]),
            JObj([type |-> JStr("folder"), id |-> JStr("F")]),
            JObj([type |-> JStr("folder"), id |-> JStr("G"),
                  children |-> MessageNode(MsgRich)]) >>)

FlattenTrees ==
    { Tree1, Tree2, Tree3, Tree4, default_message_tree,
      FolderNode("F", << MessageNode(MsgNulls), MessageNode(MsgRich) >>),
      MessageNode(MsgRich), JArr(<<>>), JNum(0) }

FlattenLists ==
    { JArr(<<MsgRich, MsgNulls, MsgRich>>), JArr(<<MsgNulls>>), JArr(<<MsgB, MsgA>>),
      JArr(<<JStr("hello"), JStr("world")>>), JArr(<<>>) }

NextFlatten ==
    \/ \E t \in FlattenTrees : handle_command_set_message_tree(Some(t))
    \/ \E l \in FlattenLists : handle_command_set_messages(Some(l))
    \/ \E l \in FlattenLists : emit_state_change_SET_MESSAGES(l)
    \/ handle_command_load_configuration(Some(JObj(EmptyMap)))

SpecFlatten == Init /\ [][NextFlatten]_vars

\* ---------------------------------------------------------------------------
\* C32: flatten after buildFlatTree

\* C32: for the stored list M and the stored tree T, flattening the flat tree
\* built from M gives M again, the flat tree has one message node per message
\* of M in list order, and flatten(buildFlatTree(flatten(T))) = flatten(T).
C32_FlattenBuildRoundTrip ==
    /\ flatten_message_tree(build_flat_message_tree(messages)) = messages
    /\ build_flat_message_tree(messages).k = "array"
    /\ Len(build_flat_message_tree(messages).items) = Len(messages)
    /\ \A i \in 1..Len(messages) :
         /\ get_str(build_flat_message_tree(messages).items[i], "type") = Some("message")
         /\ walk(build_flat_message_tree(messages).items[i]) = <<messages[i]>>
    /\ flatten_message_tree(build_flat_message_tree(flatten_message_tree(message_tree)))
         = flatten_message_tree(message_tree)
    /\ flatten_message_tree_value(
           build_flat_message_tree(flatten_message_tree_value(message_tree)))
         = flatten_message_tree_value(message_tree)

\* the nested tree was flattened into six messages, two of them the same and
\* with every optional field set, and the flat tree was then built from them
C32_Witness ==
    /\ lastCmd.command = "load-configuration"
    /\ messages = flatten_message_tree(Tree3)
    /\ Len(messages) = 6
    /\ messages[1] = messages[4]
    /\ IsSome(messages[1].style_overrides)
    /\ message_tree = build_flat_message_tree(messages)
    /\ message_tree # Tree3

(***************************************************************************)
(* SpecCollect: play-folder over trees with nested and duplicated folders. *)
(***************************************************************************)
\* D = [F = [a, F = [b], r], rich], a second F = [c] after it, and E = []
Tree5 ==
    JArr(<< FolderNode("D", << FolderNode("F", << MessageNode(MsgA),
                                                  FolderNode("F", << MessageNode(MsgB) >>),
                                                  MessageNode(MsgRich) >>),
                               MessageNode(MsgNulls) >>),
            FolderNode("F", << MessageNode(MsgC) >>),
            FolderNode("E", << >>) >>)

\* the first F has no children, the second has one message; G holds a folder
\* without an id that holds H
Tree6 ==
    JArr(<< JObj([type |-> JStr("folder"), id |-> JStr("F")]),
            FolderNode("F", << MessageNode(MsgA) >>),
            FolderNode("G", << JObj([type |-> JStr("folder"),
                                     children |-> JArr(<< FolderNode("H", << MessageNode(MsgB) >>),
                                                          MessageNode(MsgA) >>)]) >>) >>)

CollectTrees ==
    { Tree1, Tree2, Tree3, Tree4, Tree5, Tree6, default_message_tree,
      FolderNode("F", << MessageNode(MsgNulls), MessageNode(MsgRich) >>), JNum(0) }

CollectFolderIds == {"party-countdown", "D", "E", "F", "G", "H", "no-such-folder"}

NextCollect ==
    \/ \E t \in CollectTrees : handle_command_set_message_tree(Some(t))
    \/ \E f \in CollectFolderIds :
           handle_command_play_folder(Some(JObj([folderId |-> JStr(f)])))
    \/ handle_command_cancel_folder_playback(None)

SpecCollect == Init /\ [][NextCollect]_vars

\* ---------------------------------------------------------------------------
\* C33: the ids collected from a folder

\* the nodes of a tree in depth-first pre-order: a node comes before the nodes
\* of its children, the children in their order
RECURSIVE preorder(_)
preorder(node) ==
    IF node.k = "array"
    THEN Concat([i \in 1..Len(node.items) |-> preorder(node.items[i])])
    ELSE IF node.k = "object"
    THEN <<node>> \o (IF get_str(node, "type") = Some("folder") /\ IsSome(get(node, "children"))
                      THEN preorder(get(node, "children")[1]) ELSE <<>>)
    ELSE <<>>

is_folder(node, F) ==
    get_str(node, "type") = Some("folder") /\ get_str(node, "id") = Some(F)

is_message_node(node) ==
    /\ get_str(node, "type") = Some("message")
    /\ IsSome(get(node, "message"))
    /\ IsSome(get_str(get(node, "message")[1], "id"))

\* the ids of the message nodes among a sequence of nodes, in their order
message_ids_of(nodes) ==
    LET ms == SelectSeq(nodes, is_message_node)
    IN  [i \in 1..Len(ms) |-> get_str(get(ms[i], "message")[1], "id")[1]]

\* the ids under the first folder with id F in pre-order, empty without one
ids_under_first(F, tree) ==
    LET nodes == preorder(tree)
        at == {i \in 1..Len(nodes) : is_folder(nodes[i], F)}
    IN  IF at = {} THEN <<>>
        ELSE LET first == nodes[CHOOSE i \in at : \A j \in at : i <= j]
             IN  IF IsSome(get(first, "children"))
                 THEN message_ids_of(preorder(get(first, "children")[1]))
                 ELSE <<>>

\* C33: for the stored tree and every folder id F, collect_messages_from_folder
\* returns the message ids under the first folder with id F in depth-first
\* pre-order, nested sub-folders included, in encounter order, and the empty
\* list when no folder has id F; play-folder installs exactly these ids when
\* there are any.
C33_CollectFromFolder ==
    /\ \A F \in CollectFolderIds :
         collect_messages_from_folder(F, message_tree) = ids_under_first(F, message_tree)
    /\ (/\ lastCmd.command = "play-folder"
        /\ ids_under_first(payload_folder_id(lastCmd)[1], message_tree) # <<>>)
       => /\ IsSome(folder_playback_queue)
          /\ folder_playback_queue[1].folder_id = payload_folder_id(lastCmd)[1]
          /\ folder_playback_queue[1].message_ids
               = ids_under_first(payload_folder_id(lastCmd)[1], message_tree)

\* play-folder F on the tree with F nested in D, containing another F and
\* followed by a second F: the queue holds a, b, r of the first F
C33_Witness ==
    /\ message_tree = Tree5
    /\ lastCmd.command = "play-folder"
    /\ IsSome(folder_playback_queue)
    /\ folder_playback_queue[1].folder_id = "F"
    /\ folder_playback_queue[1].message_ids = <<"a", "b", "r">>
    /\ collect_messages_from_folder("no-such-folder", message_tree) = <<>>

(***************************************************************************)
(* SpecEntry: the commands offered by both entry points, through           *)
(* handle_command and through emit_state_change.                           *)
(***************************************************************************)
\* TRIGGER_MESSAGE: the payload is decoded as a message and broadcast as the
\* triggered message; no field of the store is written
emit_state_change_TRIGGER_MESSAGE(payload_value) ==
    /\ UNCHANGED <<visualization, poisoned, config_base_path, common_settings,
                   messages, message_tree, default_text_style, message_stats,
                   folder_playback_queue, clock>>
    /\ state_changed("TRIGGER_MESSAGE", payload_value,
                     from_value_MessageConfig(payload_value))

\* CLEAR_ACTIVE_MESSAGE: an empty match arm
emit_state_change_CLEAR_ACTIVE_MESSAGE(payload_value) ==
    /\ UNCHANGED <<visualization, poisoned, config_base_path, common_settings,
                   messages, message_tree, default_text_style, message_stats,
                   folder_playback_queue, clock>>
    /\ state_changed("CLEAR_ACTIVE_MESSAGE", payload_value, None)

EntryMessagesPayloads == {JArr(<<MsgB>>), JArr(<<JStr("hello")>>)}

EntryTriggerPayloads == {MsgA, JStr("hello")}

EntryAdvancePayloads == {JObj([messageId |-> JStr(m)]) : m \in {"msg-1", "msg-2"}}

NextEntry ==
    \/ \E p \in EntryMessagesPayloads : handle_command_set_messages(Some(p))
    \/ \E p \in EntryMessagesPayloads : emit_state_change_SET_MESSAGES(p)
    \/ \E p \in EntryTriggerPayloads :
           clock <= MaxTriggers /\ handle_command_trigger_message(Some(p))
    \/ \E p \in EntryTriggerPayloads : emit_state_change_TRIGGER_MESSAGE(p)
    \/ \E p \in EntryAdvancePayloads : handle_command_clear_active_message(Some(p))
    \/ \E p \in EntryAdvancePayloads : emit_state_change_CLEAR_ACTIVE_MESSAGE(p)
    \/ handle_command_set_message_tree(Some(Tree1))
    \/ emit_state_change_SET_MESSAGE_TREE(Tree1)
    \/ handle_command_play_folder(Some(JObj([folderId |-> JStr("party-countdown")])))

SpecEntry == Init /\ [][NextEntry]_vars

\* ---------------------------------------------------------------------------
\* C34: the two writer entry points

\* the remote command that a window event names
remote_name(event_type) ==
    CASE event_type = "SET_MESSAGES" -> "set-messages"
      [] event_type = "TRIGGER_MESSAGE" -> "trigger-message"
      [] event_type = "CLEAR_ACTIVE_MESSAGE" -> "clear-active-message"
      [] event_type = "SET_MESSAGE_TREE" -> "set-message-tree"
      [] OTHER -> event_type

\* the fields a command with this payload gives the store when it is applied
\* to the current state through handle_command
remote_outcome(command, pv) ==
    LET ms == decode_set_messages(pv)
        tm == decode_trigger_payload(pv)
        adv == IF IsSome(get_str(pv, "messageId"))
               THEN advance_queue(folder_playback_queue, messages,
                                  get_str(pv, "messageId")[1])
               ELSE [queue |-> folder_playback_queue, next_message |-> None,
                     should_clear_queue |-> FALSE]
    IN [messages |->
            IF command = "set-messages" /\ IsSome(ms) THEN ms[1]
            ELSE IF command = "set-message-tree" THEN flatten_message_tree(pv)
            ELSE messages,
        message_tree |->
            IF command = "set-messages" /\ IsSome(ms) THEN build_flat_message_tree(ms[1])
            ELSE IF command = "set-message-tree" THEN pv
            ELSE message_tree,
        message_stats |->
            IF command = "trigger-message" /\ IsSome(tm)
            THEN update_message_stats(message_stats, tm[1].id, clock)
            ELSE message_stats,
        folder_playback_queue |->
            IF command = "clear-active-message"
            THEN (IF adv.should_clear_queue THEN None ELSE adv.queue)
            ELSE folder_playback_queue,
        triggered_message |->
            IF command = "trigger-message" THEN tm
            ELSE IF command = "clear-active-message" THEN adv.next_message
            ELSE None]

\* the same fields of the store as it is
outcome ==
    [messages |-> messages, message_tree |-> message_tree,
     message_stats |-> message_stats,
     folder_playback_queue |-> folder_playback_queue,
     triggered_message |-> triggered_message]

\* C34: for set-messages, trigger-message, clear-active-message and
\* set-message-tree, a window event leaves the store in the state that the
\* remote command of the same name and payload leaves it in.
C34_EntryPointsAgree ==
    [][(/\ lastCmd'.entry \in {"remote", "window"}
        /\ remote_name(lastCmd'.command) \in
             {"set-messages", "trigger-message", "clear-active-message",
              "set-message-tree"}
        /\ IsSome(lastCmd'.payload))
       => outcome' = remote_outcome(remote_name(lastCmd'.command),
                                    lastCmd'.payload[1])]_vars

(***************************************************************************)
(* SpecConcClear: play-folder requests in progress at the same time as a   *)
(* completion of the last message of the active queue.                     *)
(***************************************************************************)
\* G of Tree1 holds the single message b
ClearPlayFolderPayloads == {Some(JObj([folderId |-> JStr("G")]))}

ClearAdvancePayloads == {Some(JObj([messageId |-> JStr("b")]))}

NextConcClear ==
    \/ quiescent_set_message_tree(Some(Tree1))
    \/ \E w \in Workers :
        \/ \E p \in ClearAdvancePayloads : conc_advance_lock(w, "message-complete", p)
        \/ \E p \in ClearAdvancePayloads : conc_advance_lock(w, "clear-active-message", p)
        \/ conc_clear_queue(w)
        \/ \E p \in ClearPlayFolderPayloads : conc_play_folder_collect(w, p)
        \/ conc_play_folder_install(w)
        \/ conc_play_folder_first(w)
        \/ conc_cancel_folder_playback(w, None)
        \/ conc_broadcast(w)
        \/ conc_snapshot(w)
        \/ conc_send(w)
        \/ conc_echo(w)

SpecConcClear == Init /\ [][NextConcClear]_vars

\* ---------------------------------------------------------------------------
\* C35: what removes a queue

\* the step is the critical section of a cancel-folder-playback request
cancels ==
    \E w \in Workers :
        /\ workers[w].pc = "idle"
        /\ workers'[w].command = "cancel-folder-playback"

\* the queue has been advanced past its last message
is_finished(q) == q.current_index >= Len(q.message_ids)

\* C35: a queue is removed only by cancel-folder-playback or when it has been
\* advanced past its last message (a later play-folder replaces it by another
\* queue): a queue installed by play-folder while a completion of the last
\* message of the previous queue is in progress is not removed by that
\* completion.
C35_QueueRemovedOnlyWhenFinished ==
    [][(IsSome(folder_playback_queue) /\ IsNone(folder_playback_queue'))
       => (cancels \/ is_finished(folder_playback_queue[1]))]_vars

\* ---------------------------------------------------------------------------
\* C36: the queued ids and the list

\* C36: whenever a queue is present, every id in its message_ids is the id of
\* a message in the stored list, when play-folder installs the queue and after
\* any later set-messages, set-message-tree or load-configuration.
C36_QueuedIdsAreMessages ==
    IsSome(folder_playback_queue) =>
        \A i \in 1..Len(folder_playback_queue[1].message_ids) :
            IsSome(find_by_id(messages, folder_playback_queue[1].message_ids[i]))

(***************************************************************************)
(* SpecPlayback: folder playback with a display surface that answers every *)
(* trigger of the playback engine with a message-complete, among commands  *)
(* that replace the tree and the list.                                     *)
(***************************************************************************)
\* the number of events the display surface sees before the other clients
\* stop sending commands
MaxPlaybackCommands == 4

\* the visualizer window opens
display_open ==
    /\ ~display.on
    /\ display' = [display EXCEPT !.on = TRUE]
    /\ UNCHANGED <<store, state_tx, command_tx, emitted, lastCmd, clock, workers, sse>>

\* the display surface finishes the message it plays and reports it
display_complete ==
    /\ display.on
    /\ Len(display.pending) > 0
    /\ handle_command_message_complete(
           Some(JObj([messageId |-> JStr(Head(display.pending))])))

\* another client sends a command while the display surface is open
client_sends == display.on /\ display.seen < MaxPlaybackCommands

NextPlayback ==
    \/ display_open
    \/ display_complete
    \/ \E f \in {"party-countdown", "F", "G"} :
           client_sends /\ handle_command_play_folder(Some(JObj([folderId |-> JStr(f)])))
    \/ \E t \in {Tree1, Tree2} : client_sends /\ handle_command_set_message_tree(Some(t))
    \/ client_sends /\ handle_command_set_messages(Some(JArr(<<MsgA>>)))

\* the display surface answers: a completion that stays possible is sent
SpecPlayback ==
    Init /\ [][NextPlayback]_vars /\ WF_vars(display_complete)

\* ---------------------------------------------------------------------------
\* C37: folder playback finishes

\* C37: with a display surface that answers every trigger of the playback
\* engine with a message-complete for that message and sends no other
\* completion, a queue installed by play-folder is eventually absent again,
\* whatever other commands run in between.
C37_PlaybackFinishes ==
    (display.on /\ IsSome(folder_playback_queue)) ~> IsNone(folder_playback_queue)

(***************************************************************************)
(* SpecConcMessages: set-messages and set-message-tree requests in         *)
(* progress at the same time.                                              *)
(***************************************************************************)
\* set-messages: decode the payload, then the section under the messages lock
conc_set_messages(w, payload) ==
    /\ accept(w)
    /\ LET ms == IF IsSome(payload) THEN decode_set_messages(payload[1]) ELSE None
       IN /\ messages' = IF IsSome(ms) THEN ms[1] ELSE messages
          /\ workers' = [workers EXCEPT ![w] =
                start(w, "set-messages", payload,
                      IF IsSome(ms) THEN "rebuild" ELSE "broadcast")]
    /\ UNCHANGED <<visualization, poisoned, config_base_path, common_settings,
                   message_tree, default_text_style, message_stats,
                   folder_playback_queue, triggered_message, state_tx, command_tx,
                   sse, emitted, display, lastCmd>>

\* set-messages: the messages lock is taken again and, under it, the
\* message_tree lock: the tree is built from the list as it is now
conc_set_messages_rebuild(w) ==
    /\ workers[w].pc = "rebuild"
    /\ message_tree' = build_flat_message_tree(messages)
    /\ workers' = [workers EXCEPT ![w].pc = "broadcast"]
    /\ UNCHANGED <<visualization, poisoned, config_base_path, common_settings,
                   messages, default_text_style, message_stats,
                   folder_playback_queue, triggered_message, state_tx, command_tx,
                   sse, emitted, display, lastCmd, clock>>

NextConcMessages ==
    \E w \in Workers :
        \/ \E p \in {Some(JArr(<<MsgB>>)), Some(JNum(0))} : conc_set_messages(w, p)
        \/ conc_set_messages_rebuild(w)
        \/ conc_set_message_tree(w, Some(Tree1))
        \/ conc_set_message_tree_flat(w)
        \/ conc_broadcast(w)
        \/ conc_snapshot(w)
        \/ conc_send(w)
        \/ conc_echo(w)

SpecConcMessages == Init /\ [][NextConcMessages]_vars

\* ---------------------------------------------------------------------------
\* C38: the list and the tree after concurrent writers

\* C38: once every set-messages and set-message-tree request has finished,
\* the stored list is the flattened stored tree, for every interleaving of
\* their critical sections.
C38_ListIsFlattenedTreeWhenIdle ==
    (\A w \in Workers : workers[w].pc = "idle")
        => messages = flatten_message_tree(message_tree)

(***************************************************************************)
(* SpecEngineStats: the commands that trigger a message, directly          *)
(* (trigger-message) or through the playback engine (play-folder,          *)
(* message-complete, clear-active-message).                                *)
(***************************************************************************)
EngineFolders == {"party-countdown", "F"}

NextEngineStats ==
    \/ clock <= MaxTriggers /\ handle_command_trigger_message(Some(MsgA))
    \/ handle_command_set_message_tree(Some(Tree1))
    \/ \E f \in EngineFolders :
           handle_command_play_folder(Some(JObj([folderId |-> JStr(f)])))
    \/ \E i \in 1..Len(messages) :
           handle_command_message_complete(
               Some(JObj([messageId |-> JStr(messages[i].id)])))
    \/ \E i \in 1..Len(messages) :
           handle_command_clear_active_message(
               Some(JObj([messageId |-> JStr(messages[i].id)])))

SpecEngineStats == Init /\ [][NextEngineStats]_vars

\* the commands through which the playback engine triggers a message
EngineCommands == {"play-folder", "message-complete", "clear-active-message"}

\* ---------------------------------------------------------------------------
\* C39: message stats of the messages the playback engine triggers

\* C39: a step of play-folder, message-complete or clear-active-message that
\* triggers a message counts it in the message stats as trigger-message
\* does: the triggerCount of that message grows by one and its history by
\* one record.
C39_EngineTriggerCounted ==
    [][(/\ lastCmd'.command \in EngineCommands
        /\ IsSome(triggered_message'))
       => /\ trigger_count(message_stats', triggered_message'[1].id)
                = trigger_count(message_stats, triggered_message'[1].id) + 1
          /\ IsSome(get(message_stats', triggered_message'[1].id))
          /\ history_len(get(message_stats', triggered_message'[1].id)[1]) > 0]_vars

(***************************************************************************)
(* SpecSseOrder: a client connects to GET /api/events while commands are   *)
(* handled, one after the other.  Each command raises the intensity of the *)
(* common settings by one, so the intensity of a snapshot tells how recent *)
(* the store was when the snapshot was taken.                              *)
(***************************************************************************)
\* the number of commands handled in a run of SpecSseOrder
MaxOrderCommands == 3

order_command ==
    /\ common_settings.intensity <= MaxOrderCommands
    /\ handle_command_set_common_settings(lag_payload(common_settings.intensity + 1))

NextSseOrder ==
    \/ order_command
    \/ sse_subscribe_state
    \/ sse_subscribe_command
    \/ sse_get_state
    \/ sse_poll
    \/ sse_poll_pending

SpecSseOrder == Init /\ [][NextSseOrder]_vars

\* how recent the store was when the snapshot of a state event was taken
recency(e) == e.data.common_settings.intensity

\* ---------------------------------------------------------------------------
\* C40: the state events of a subscriber in time

\* C40: the state events delivered to a subscriber never go back in time:
\* every state event delivered, the initial one included, carries a snapshot
\* of a store at least as recent as that of the state event delivered
\* before it.
C40_StateEventsNeverGoBack ==
    [][(/\ sse'.delivered = sse.delivered + 1
        /\ sse'.last[1].kind = "state"
        /\ IsSome(sse.last_state))
       => recency(sse'.last[1]) >= recency(sse.last_state[1])]_vars

====
